---- MODULE Spec2Model ----
(***************************************************************************)
(* Verification model of the Modbus TCP stack (edgeo-scada/modbus-tcp).    *)
(*                                                                         *)
(*   SpecClient : one Client (client.go) over its TCPTransport            *)
(*                (internal/transport/tcp.go), shared by the goroutines   *)
(*                in Procs, against a peer that may answer anything.      *)
(*   SpecPool   : one Pool (pool.go) with its callers, the health checker *)
(*                goroutine and Pool.Close.                               *)
(*                                                                         *)
(* A step of the model is one critical section of the code (a region      *)
(* under c.mu, t.mu or p.mu), one channel operation, or one blocking      *)
(* network operation.  Atomic metric counters are updated in the step     *)
(* they follow in the code.                                                *)
(***************************************************************************)
EXTENDS Integers, Sequences, FiniteSets, TLC

(***************************************************************************)
(* Bounds of the exploration.                                              *)
(***************************************************************************)
\* Largest max_retries option explored.
MaxRetriesBound == 2
\* Calls (requests, Connect, Close) made on the client, over all goroutines.
MaxOps == 3
\* Successful dials of the transport (socket identities 1..MaxDials).
MaxDials == 2
\* Failed dials.
MaxDialFailures == 1
\* Contexts that are cancelled or expire during their call.
MaxCtxDone == 1
\* Largest pool size explored.
MaxPoolSize == 2
\* Calls (Get, Put, Discard, Close) made on the pool, over all goroutines.
MaxPoolOps == 5
\* Clients the pool's factory makes and connects (identities 1..MaxClients).
MaxClients == 3
\* Creations that fail to connect.
MaxCreateFailures == 1
\* Contexts of Get that are cancelled or expire during the call.
MaxPoolCtxDone == 1
\* Health sweeps started by the ticker.
MaxSweeps == 1
\* Largest max_conns option of the server explored.
MaxConnsBound == 2
\* Sockets the listener accepts (identities 1..MaxAccepts).
MaxAccepts == 3
\* Request frames the peers send, over all sockets.
MaxRequests == 2
\* Reads that fail (EOF, timeout, invalid frame) on sockets the server has not
\* closed.
MaxReadErrors == 1
\* Calls (Close, ForceClose, Discard) made on one PooledClient, over all
\* goroutines.
MaxPooledCalls == 3
MaxApiCalls == 2
\* the requests the server processes
MaxServedRequests == 2
MaxGeneratorCalls == 65540

(***************************************************************************)
(* Program constants.                                                      *)
(***************************************************************************)
StateDisconnected == 0
StateConnecting == 1
StateConnected == 2
ProtocolID == 0
FuncReadHoldingRegisters == 3
FuncWriteSingleRegister == 6
FuncReadCoils == 1
FuncReadDiscreteInputs == 2
FuncReadInputRegisters == 4
FuncWriteSingleCoil == 5
FuncWriteMultipleCoils == 15
FuncWriteMultipleRegisters == 16
MaxQuantityCoils == 2000
MaxQuantityDiscreteInputs == 2000
MaxQuantityRegisters == 125
MaxQuantityWriteRegisters == 123
MBAPHeaderSize == 7
CoilOn == 65280
CoilOff == 0
ExceptionIllegalFunction == 1
ExceptionIllegalDataAddress == 2
ExceptionIllegalDataValue == 3
ExceptionServerDeviceFailure == 4
DefaultUnitID == 1

\* Goroutines using the client.
Procs == {"a", "b"}

NoProc == "none"

VARIABLES
    opts,       \* clientOptions: autoReconnect, maxRetries
    client,     \* Client: state, closed (closeCh is closed iff closed)
    metrics,    \* Metrics counters of the client, and callback invocations
    transport,  \* TCPTransport: conn (0 = nil, else the socket), mu (holder)
    net,        \* the network: dials, failed dials, transactions on the wire
    req         \* per goroutine: position and locals of the running call

clientVars == <<opts, client, metrics, transport, net, req>>

VARIABLES
    pool,       \* Pool: size, created, closed, stopCh, conns, and call budgets
    pmetrics,   \* PoolMetrics counters
    clients,    \* the clients made by the pool's factory, by identity
    callers,    \* per goroutine: position and locals of the running pool call
    hc,         \* the healthChecker goroutine
    pooled      \* one PooledClient shared by the goroutines: returned

poolVars == <<pool, pmetrics, clients, callers, hc, pooled>>

VARIABLES
    srv,        \* Server: maxConns, closed, listener, conns, wg, and budgets
    serve,      \* the goroutine in Serve: position, accepted socket
    closer,     \* the goroutine that calls Server.Close: position
    workers,    \* the handleConn goroutines, by socket
    sock        \* the accepted sockets: state, requests sent, read, answered

serverVars == <<srv, serve, closer, workers, sock>>

VARIABLES
    mem,        \* MemoryHandler: holding registers and coils, by unit
    link,       \* a connected client and its connection to the server
    last,       \* the last call made on that client and what it returned
    wrote       \* the values the successful writes have written, by unit

apiVars == <<mem, link, last, wrote>>

VARIABLES
    fr,         \* a frame, its encoding and what decoding that gives
    gen,        \* TransactionIDGenerator: counter, and what Next returned
    rc          \* one call of Client.reconnect: options, locals, position

extraVars == <<apiVars, fr, gen, rc>>

vars == <<clientVars, poolVars, serverVars, extraVars>>

(***************************************************************************)
(* Errors, by kind.                                                        *)
(***************************************************************************)
ErrNone == "nil"
ErrNotConnected == "ErrNotConnected"
ErrConnectionClosed == "ErrConnectionClosed"
ErrMaxRetriesExceeded == "ErrMaxRetriesExceeded"
ErrInvalidResponse == "ErrInvalidResponse"
ErrInvalidFrame == "ErrInvalidFrame"
ErrModbus == "ModbusError"
\* the nil *ModbusError that ParseExceptionResponse returns for a PDU shorter
\* than two bytes, which doSend returns as a non-nil error value
ErrModbusNil == "(*ModbusError)(nil)"
ErrCanceled == "context.Canceled"
ErrDeadlineExceeded == "context.DeadlineExceeded"
\* errors made by the transport
ErrTransportNotConnected == "transport: not connected"
ErrWrite == "transport: write"
ErrRead == "transport: read"
ErrIOTimeout == "transport: i/o timeout"
ErrBadHeader == "transport: invalid header"
ErrDial == "transport: tcp connect"
Success == "ok"

TransportIOErrors == {ErrWrite, ErrRead, ErrIOTimeout, ErrBadHeader}

(***************************************************************************)
(* Initial state of the client model: NewClient (client.go), with the     *)
(* options WithAutoReconnect and WithMaxRetries set to any value.  Of the  *)
(* metrics, the counters some property reads are kept: RequestsSuccess,   *)
(* Reconnections and Latency are written by the code and never read.      *)
(***************************************************************************)
IdleReq ==
    [pc |-> "idle", op |-> "none", attempt |-> 0,
     ret |-> "none",
     sends |-> 0, tx |-> 0, unit |-> DefaultUnitID,
     fc |-> FuncReadHoldingRegisters, ctx |-> "live",
     \* history of the call, read by the properties only
     afterClose |-> FALSE, ctxSeen |-> FALSE, lastIO |-> FALSE,
     gotExc |-> "none", got |-> "none",
     \* the FunctionCode of the ModbusError returned, and the first byte of
     \* the response PDU it was made of
     excFC |-> 0, excByte |-> 0,
     \* handleDisconnect's local wasConnected
     wasConnected |-> FALSE]

\* An entry of p.conns: none.
NoEntry == [c |-> 0, old |-> FALSE]

\* The locals of a goroutine that is in no call on the pool.
IdleCaller ==
    [pc |-> "idle", op |-> "none", ctx |-> "live", wake |-> "none",
     entry |-> NoEntry, arg |-> 0, ret |-> "none", got |-> 0, held |-> {},
     \* history of the call, read by the properties only
     startedClosed |-> FALSE, atClose |-> FALSE]

\* No frame.
NoFrame == [tx |-> 0, protocol |-> 0, unit |-> 0, pdu |-> <<>>]

\* The Handler was not called.
NoCall == [err |-> "not called", code |-> 0]

\* A handleConn goroutine that has not been started.
NoWorker == [pc |-> "none", frame |-> NoFrame, resp |-> NoFrame,
             handler |-> NoCall]

\* A socket that has not been accepted.
NoSock == [state |-> "none", inbox |-> <<>>, reads |-> <<>>, writes |-> <<>>,
           rejected |-> FALSE]

\* NewServer with the option WithMaxConnections(n); ListenAndServe or
\* ListenAndServeContext has made the listener and is about to call Serve.
NewServer(n) ==
    /\ srv = [maxConns |-> n, closed |-> FALSE, listener |-> "nil",
              listenerClosed |-> FALSE, conns |-> {}, wg |-> 0,
              accepted |-> 0, requests |-> 0, readErrors |-> 0]
    /\ serve = [pc |-> "start", conn |-> 0]
    /\ closer = [pc |-> "idle"]
    /\ workers = [c \in 1..MaxAccepts |-> NoWorker]
    /\ sock = [c \in 1..MaxAccepts |-> NoSock]

\* The server's variables while another model runs.
ServerUnused == NewServer(1)

\* The unit IDs the calls address.
Units == {DefaultUnitID, 2}

\* NewMemoryHandler: no unit is initialised; a unit's tables, 65536 zero
\* values each, are kept as the values at the addresses written so far.
NewMemoryHandler ==
    [coils |-> [u \in Units |-> <<>>],
     discreteInputs |-> [u \in Units |-> <<>>],
     holdingRegs |-> [u \in Units |-> <<>>],
     inputRegs |-> [u \in Units |-> <<>>]]

\* An error value of the API: its kind and, for a ModbusError, its function
\* and exception codes.
ApiErr(kind) == [kind |-> kind, fc |-> 0, code |-> 0]

\* No call has been made.
NoApiCall ==
    [op |-> "none", unit |-> 0, addr |-> 0, qty |-> 0, err |-> ApiErr("none"),
     values |-> <<>>, pdu |-> <<>>, sent |-> 0]

\* defaultOptions: maxRetries
DefaultMaxRetries == 3

\* A client with the unit ID and auto-reconnect options given, connected to
\* a running server; its RequestsTotal metric, the frames it has written
\* to the socket and the calls made.
NewLink(unit, auto) ==
    [state |-> StateConnected, sock |-> "open", unitID |-> unit,
     autoReconnect |-> auto, maxRetries |-> DefaultMaxRetries,
     RequestsTotal |-> 0, frames |-> 0, calls |-> 0, crashed |-> FALSE]

\* A client connected to a server that serves a new MemoryHandler.
ConnectedClient ==
    /\ mem = NewMemoryHandler
    /\ link = NewLink(DefaultUnitID, FALSE)
    /\ last = NoApiCall
    /\ wrote = <<>>

\* No frame is being encoded.
NoRoundTrip == [frame |-> NoFrame, bytes |-> <<>>, err |-> "none",
                decoded |-> NoFrame, length |-> 0, op |-> "none"]

\* A new TransactionIDGenerator: the uint32 counter, zero, as its two 16-bit
\* halves; calls made, and the value and the number of the last call of
\* each goroutine.
NewGenerator ==
    [hi |-> 0, lo |-> 0, calls |-> 0,
     ret |-> [p \in Procs |-> 0], at |-> [p \in Procs |-> 0]]

\* No call of Client.reconnect.
NoReconnect ==
    [pc |-> "none", reconnectBackoff |-> 0, maxReconnectTime |-> 0,
     backoff |-> 0, failed |-> 0, waits |-> <<>>, ctx |-> "live",
     closed |-> FALSE, doneAt |-> "none", ret |-> "none"]

\* The variables of the API, codec and generator models while another model
\* runs.
ExtraUnused ==
    /\ ConnectedClient
    /\ fr = NoRoundTrip
    /\ gen = NewGenerator
    /\ rc = NoReconnect

\* No PooledClient is shared.
NoPooled == [returned |-> FALSE, calls |-> 0, puts |-> 0, decrements |-> 0]

\* The pool's variables while the client model runs.
PoolUnused ==
    /\ pooled = NoPooled
    /\ pool = [size |-> 1, maxIdle |-> FALSE, created |-> 0, closed |-> FALSE,
               stopClosed |-> FALSE, conns |-> <<>>, connsClosed |-> FALSE,
               made |-> 0, createFailures |-> 0, calls |-> 0, ctxDone |-> 0,
               panicked |-> FALSE]
    /\ pmetrics = [Hits |-> 0, Timeouts |-> 0, Available |-> 0]
    /\ clients = [c \in 1..MaxClients |-> "none"]
    /\ callers = [p \in Procs |-> IdleCaller]
    /\ hc = [pc |-> "ticker", checked |-> <<>>, sweeps |-> 0]

\* The client's variables while the pool model runs.
ClientUnused ==
    /\ opts = [autoReconnect |-> FALSE, maxRetries |-> MaxRetriesBound]
    /\ client = [state |-> StateDisconnected, closed |-> FALSE,
                 txCounter |-> 0, closeReturned |-> FALSE]
    /\ metrics = [ActiveConns |-> 0, RequestsTotal |-> 0, RequestsErrors |-> 0,
                  onDisconnect |-> 0]
    /\ transport = [conn |-> 0, mu |-> NoProc]
    /\ net = [calls |-> 0, dials |-> 0, dialFailures |-> 0, ctxDone |-> 0,
              wire |-> {}]
    /\ req = [p \in Procs |-> IdleReq]

InitClient ==
    /\ opts \in [autoReconnect : {TRUE}, maxRetries : 1..MaxRetriesBound]
               \cup {[autoReconnect |-> FALSE, maxRetries |-> MaxRetriesBound]}
    /\ client = [state |-> StateDisconnected, closed |-> FALSE,
                 txCounter |-> 0, closeReturned |-> FALSE]
    /\ metrics = [ActiveConns |-> 0, RequestsTotal |-> 0, RequestsErrors |-> 0,
                  onDisconnect |-> 0]
    /\ transport = [conn |-> 0, mu |-> NoProc]
    /\ net = [calls |-> 0, dials |-> 0, dialFailures |-> 0, ctxDone |-> 0,
              wire |-> {}]
    /\ req = [p \in Procs |-> IdleReq]
    /\ PoolUnused
    /\ ServerUnused
    /\ ExtraUnused

(***************************************************************************)
(* sendWithUnit: the retry loop.                                           *)
(***************************************************************************)
\* maxRetries of sendWithUnit: 1 unless autoReconnect.
Attempts == IF opts.autoReconnect THEN opts.maxRetries ELSE 1

\* A call returns res to its caller: at "ret" the call has returned and its
\* locals are still on record for the properties.
Return(r, res) == [r EXCEPT !.pc = "ret", !.ret = res, !.tx = 0]

\* for attempt := 0; attempt < maxRetries; attempt++, with the mutation
\* attempt <= maxRetries
LoopHeadOffByOne(r) ==
    IF r.attempt <= Attempts
    THEN [r EXCEPT !.pc = IF r.attempt > 0 THEN "rc_check" ELSE "ds_check"]
    ELSE Return(r, ErrMaxRetriesExceeded)

\* for attempt := 0; attempt < maxRetries; attempt++ { if attempt > 0
\* { reconnect } doSend }, and the return after the loop.
LoopHead(r) ==
    IF r.attempt < Attempts
    THEN [r EXCEPT !.pc = IF r.attempt > 0 THEN "rc_check" ELSE "ds_check"]
    ELSE Return(r, ErrMaxRetriesExceeded)

\* The mutation in which Modbus exceptions are retried.
isRetryableErrorAlsoModbus(e) ==
    e \notin {ErrNone, ErrCanceled, ErrDeadlineExceeded}

\* isRetryableError: not nil, not a *ModbusError, not a context error.
isRetryableError(e) ==
    e \notin {ErrNone, ErrModbus, ErrModbusNil, ErrCanceled, ErrDeadlineExceeded}

\* sendWithUnit after doSend returned the error e.  (lastErr, which only
\* supplies the text after "max retries exceeded: ", is not kept.)
AfterDoSendErr(r, e) ==
    LET r1 == [r EXCEPT !.lastIO = (e \in TransportIOErrors)] IN
    IF ~opts.autoReconnect \/ ~isRetryableError(e)
    THEN Return(r1, e)
    ELSE [r1 EXCEPT !.pc = "hd_lock", !.tx = 0]

\* sendWithUnit after reconnect returned the error e: lastErr = err; continue.
AfterReconnectErr(r, e) ==
    LoopHead([r EXCEPT !.attempt = @ + 1, !.lastIO = FALSE])

\* ctx.Err() of a context that is done.
CtxErr(r) == IF r.ctx = "cancelled" THEN ErrCanceled ELSE ErrDeadlineExceeded

\* A client method is called: sendWithUnit starts its loop.
StartRequest(p) ==
    /\ req[p].pc = "idle"
    /\ net.calls < MaxOps
    /\ net' = [net EXCEPT !.calls = @ + 1]
    /\ req' = [req EXCEPT ![p] =
                 LoopHead([IdleReq EXCEPT !.op = "request", !.pc = "loop",
                                          !.afterClose = client.closeReturned])]
    /\ UNCHANGED <<opts, client, metrics, transport>>
    /\ UNCHANGED <<poolVars, serverVars, extraVars>>

\* The caller's context is cancelled, or its deadline fires, during a call.
CtxDone(p) ==
    /\ req[p].pc \notin {"idle", "ret"}
    /\ req[p].op \in {"request", "connect"}
    /\ req[p].ctx = "live"
    /\ net.ctxDone < MaxCtxDone
    /\ net' = [net EXCEPT !.ctxDone = @ + 1]
    /\ \E k \in {"cancelled", "deadline"} :
           req' = [req EXCEPT ![p].ctx = k]
    /\ UNCHANGED <<opts, client, metrics, transport>>
    /\ UNCHANGED <<poolVars, serverVars, extraVars>>

\* The caller has its result; the goroutine is free for another call.
ResultTaken(p) ==
    /\ req[p].pc = "ret"
    /\ req' = [req EXCEPT ![p] = IdleReq]
    /\ UNCHANGED <<opts, client, metrics, transport, net>>
    /\ UNCHANGED <<poolVars, serverVars, extraVars>>

(***************************************************************************)
(* Client.Connect and TCPTransport.Connect.                                *)
(***************************************************************************)
\* The mutation of t.mu.Lock() that lets a second goroutine in.
TransportLockIgnored(p) == TRUE

\* t.mu.Lock() of the transport: p gets the mutex when nobody holds it.
TransportLockFree(p) == transport.mu = NoProc

\* Connect returned e to p: to the caller, or into Client.reconnect.
ConnectReturn(r, e) ==
    IF r.op = "connect"
    THEN Return(r, IF e = ErrNone THEN Success ELSE e)
    ELSE IF e = ErrNone
         THEN [r EXCEPT !.pc = "ds_check"]   \* reconnect returns nil
         ELSE [r EXCEPT !.pc = "rc_wait"]    \* the backoff select

\* Client.Connect is called by a user goroutine.
StartConnect(p) ==
    /\ req[p].pc = "idle"
    /\ net.calls < MaxOps
    /\ net' = [net EXCEPT !.calls = @ + 1]
    /\ req' = [req EXCEPT ![p] =
                 [IdleReq EXCEPT !.op = "connect", !.pc = "cn_lock"]]
    /\ UNCHANGED <<opts, client, metrics, transport>>
    /\ UNCHANGED <<poolVars, serverVars, extraVars>>

\* Connect, first critical section: closed / already connected / Connecting.
ConnectBegin(p) ==
    /\ req[p].pc = "cn_lock"
    /\ IF client.closed
       THEN /\ req' = [req EXCEPT ![p] = ConnectReturn(@, ErrConnectionClosed)]
            /\ UNCHANGED client
       ELSE IF client.state = StateConnected
       THEN /\ req' = [req EXCEPT ![p] = ConnectReturn(@, ErrNone)]
            /\ UNCHANGED client
       ELSE /\ client' = [client EXCEPT !.state = StateConnecting]
            /\ req' = [req EXCEPT ![p].pc = "cn_dial"]
    /\ UNCHANGED <<opts, metrics, transport, net>>
    /\ UNCHANGED <<poolVars, serverVars, extraVars>>

\* TCPTransport.Connect under t.mu: a no-op with a socket, else it dials.
\* The dial fails when the context is done, and may fail anyway.
TransportConnect(p) ==
    /\ req[p].pc = "cn_dial"
    /\ TransportLockFree(p)
    /\ IF transport.conn # 0
       THEN /\ req' = [req EXCEPT ![p].pc = "cn_ok"]
            /\ UNCHANGED <<transport, net>>
       ELSE \/ /\ req[p].ctx = "live"
               /\ net.dials < MaxDials
               /\ net' = [net EXCEPT !.dials = @ + 1]
               /\ transport' = [transport EXCEPT !.conn = net.dials + 1]
               /\ req' = [req EXCEPT ![p].pc = "cn_ok"]
            \/ /\ req[p].ctx # "live" \/ net.dialFailures < MaxDialFailures
               /\ net' = [net EXCEPT !.dialFailures =
                            IF req[p].ctx = "live" THEN @ + 1 ELSE @]
               /\ req' = [req EXCEPT ![p].pc = "cn_fail"]
               /\ UNCHANGED transport
    /\ UNCHANGED <<opts, client, metrics>>
    /\ UNCHANGED <<poolVars, serverVars, extraVars>>

\* Connect after a successful transport.Connect: Connected, ActiveConns+1,
\* onConnect.
ConnectOK(p) ==
    /\ req[p].pc = "cn_ok"
    /\ client' = [client EXCEPT !.state = StateConnected]
    /\ metrics' = [metrics EXCEPT !.ActiveConns = @ + 1]
    /\ req' = [req EXCEPT ![p] = ConnectReturn(@, ErrNone)]
    /\ UNCHANGED <<opts, transport, net>>
    /\ UNCHANGED <<poolVars, serverVars, extraVars>>

\* Connect after a failed transport.Connect: Disconnected, the error.
ConnectFail(p) ==
    /\ req[p].pc = "cn_fail"
    /\ client' = [client EXCEPT !.state = StateDisconnected]
    /\ req' = [req EXCEPT ![p] = ConnectReturn(@, ErrDial)]
    /\ UNCHANGED <<opts, metrics, transport, net>>
    /\ UNCHANGED <<poolVars, serverVars, extraVars>>

(***************************************************************************)
(* Client.Close.                                                           *)
(***************************************************************************)
\* Close, critical section: idempotent; closed, close(closeCh), Disconnected.
ClientClose(p) ==
    /\ req[p].pc = "idle"
    /\ net.calls < MaxOps
    /\ net' = [net EXCEPT !.calls = @ + 1]
    /\ LET r == [IdleReq EXCEPT !.op = "close"] IN
       IF client.closed
       THEN /\ req' = [req EXCEPT ![p] = Return(r, Success)]
            /\ UNCHANGED <<client, metrics>>
       ELSE /\ client' = [client EXCEPT !.closed = TRUE,
                                        !.state = StateDisconnected]
            /\ metrics' = [metrics EXCEPT !.ActiveConns =
                             IF client.state = StateConnected THEN @ - 1 ELSE @]
            /\ req' = [req EXCEPT ![p] = [r EXCEPT !.pc = "cl_close"]]
    /\ UNCHANGED <<opts, transport>>
    /\ UNCHANGED <<poolVars, serverVars, extraVars>>

\* Close, then c.transport.Close() under t.mu, and the return.
ClientCloseTransport(p) ==
    /\ req[p].pc = "cl_close"
    /\ TransportLockFree(p)
    /\ transport' = [transport EXCEPT !.conn = 0]
    /\ client' = [client EXCEPT !.closeReturned = TRUE]
    /\ req' = [req EXCEPT ![p] = Return(@, Success)]
    /\ UNCHANGED <<opts, metrics, net>>
    /\ UNCHANGED <<poolVars, serverVars, extraVars>>

(***************************************************************************)
(* Client.reconnect and Client.handleDisconnect.                           *)
(***************************************************************************)
\* reconnect, the select at the head of its loop: ctx.Done, closeCh, default.
\* With none ready: Reconnections+1 and Connect is called.
ReconnectCheck(p) ==
    /\ req[p].pc = "rc_check"
    /\ \/ /\ req[p].ctx # "live"
          /\ req' = [req EXCEPT ![p] =
                       AfterReconnectErr([@ EXCEPT !.ctxSeen = TRUE], CtxErr(@))]
       \/ /\ client.closed
          /\ req' = [req EXCEPT ![p] = AfterReconnectErr(@, ErrConnectionClosed)]
       \/ /\ req[p].ctx = "live"
          /\ ~client.closed
          /\ req' = [req EXCEPT ![p].pc = "cn_lock"]
    /\ UNCHANGED <<opts, client, metrics, transport, net>>
    /\ UNCHANGED <<poolVars, serverVars, extraVars>>

\* reconnect, the backoff select: ctx.Done, closeCh, time.After(backoff).
ReconnectBackoff(p) ==
    /\ req[p].pc = "rc_wait"
    /\ \/ /\ req[p].ctx # "live"
          /\ req' = [req EXCEPT ![p] =
                       AfterReconnectErr([@ EXCEPT !.ctxSeen = TRUE], CtxErr(@))]
       \/ /\ client.closed
          /\ req' = [req EXCEPT ![p] = AfterReconnectErr(@, ErrConnectionClosed)]
       \/ req' = [req EXCEPT ![p].pc = "rc_check"]
    /\ UNCHANGED <<opts, client, metrics, transport, net>>
    /\ UNCHANGED <<poolVars, serverVars, extraVars>>

\* handleDisconnect, critical section: Disconnected, ActiveConns-1 if it was
\* Connected.
HandleDisconnectState(p) ==
    /\ req[p].pc = "hd_lock"
    /\ client' = [client EXCEPT !.state = StateDisconnected]
    /\ metrics' = [metrics EXCEPT !.ActiveConns =
                     IF client.state = StateConnected THEN @ - 1 ELSE @]
    /\ req' = [req EXCEPT ![p].pc = "hd_close", ![p].got = "none",
                          ![p].wasConnected = (client.state = StateConnected)]
    /\ UNCHANGED <<opts, transport, net>>
    /\ UNCHANGED <<poolVars, serverVars, extraVars>>

\* handleDisconnect, then c.transport.Close(), onDisconnect(err), and
\* sendWithUnit continues with the next attempt.
HandleDisconnectClose(p) ==
    /\ req[p].pc = "hd_close"
    /\ TransportLockFree(p)
    /\ transport' = [transport EXCEPT !.conn = 0]
    /\ metrics' = [metrics EXCEPT !.onDisconnect = @ + 1]
    /\ req' = [req EXCEPT ![p] = LoopHead([@ EXCEPT !.attempt = @ + 1,
                                                    !.wasConnected = FALSE])]
    /\ UNCHANGED <<opts, client, net>>
    /\ UNCHANGED <<poolVars, serverVars, extraVars>>

(***************************************************************************)
(* Frames.  A frame on the wire is its MBAP header fields and PDU bytes.   *)
(***************************************************************************)
\* TransactionIDGenerator.Next: uint16(atomic.AddUint32(&counter, 1)).  The
\* model keeps the low 16 bits of the uint32 counter, which decide every
\* later result, since 2^16 divides 2^32.
TxIDModulus == 65536
TxCounterNext(counter) == (counter + 1) % TxIDModulus
TxIDOf(counter) == counter % TxIDModulus

\* What the peer may send back for the request of r: any transaction ID,
\* protocol ID, Length, unit ID, and a PDU that is empty, a normal or an
\* exception response, for the requested or for another function code.
ResponsePDUs(r) ==
    {<<>>, <<r.fc, 0>>, <<FuncWriteSingleRegister, 0>>,
     <<r.fc + 128, ExceptionIllegalDataAddress>>, <<r.fc + 128>>,
     <<FuncWriteSingleRegister + 128, ExceptionIllegalDataAddress>>}

Responses(r) ==
    {[tx |-> t, proto |-> pr, length |-> l, unit |-> u, pdu |-> d] :
       t \in {r.tx, (r.tx + 1) % TxIDModulus}, pr \in {ProtocolID, 1},
       u \in {r.unit, (r.unit + 1) % 256},
       l \in {0, 255}, d \in {<<>>}}
    \cup
    {[tx |-> t, proto |-> pr, length |-> Len(d) + 1, unit |-> u, pdu |-> d] :
       t \in {r.tx, (r.tx + 1) % TxIDModulus}, pr \in {ProtocolID, 1},
       u \in {r.unit, (r.unit + 1) % 256}, d \in ResponsePDUs(r)}

\* TCPTransport.Send after the header is read: protocol ID and Length checks.
\* The error, or nil when the response is handed to doSend.
TransportHeaderCheck(f) ==
    IF f.proto # 0 THEN ErrBadHeader
    ELSE IF f.length < 1 \/ f.length > 254 THEN ErrBadHeader
    ELSE ErrNone

\* Frame.Decode of the bytes the transport returned: the error, or nil.
FrameDecode(f) ==
    IF f.length - 1 < 0 THEN ErrInvalidFrame
    ELSE IF Len(f.pdu) < f.length - 1 THEN ErrInvalidFrame
    ELSE ErrNone

\* IsExceptionResponse: len(pdu) > 0 && pdu[0]&0x80 != 0.
IsExceptionResponse(pdu) == Len(pdu) > 0 /\ pdu[1] >= 128

\* ParseExceptionResponse, as the error value doSend returns: nil pointer
\* for a PDU shorter than two bytes.
ParseExceptionResponse(pdu) == IF Len(pdu) < 2 THEN ErrModbusNil ELSE ErrModbus

\* The FunctionCode field of the ModbusError ParseExceptionResponse makes:
\* pdu[0] & 0x7F.
ModbusErrorFunctionCode(pdu) == pdu[1] % 128

\* doSend after transport.Send returned frame f: decode, then the checks of
\* transaction ID, unit ID, exception response and function code, in order.
DoSendValidate(r, f) ==
    IF FrameDecode(f) # ErrNone THEN FrameDecode(f)
    ELSE IF f.tx # r.tx THEN ErrInvalidResponse
    ELSE IF f.unit # r.unit THEN ErrInvalidResponse
    ELSE IF IsExceptionResponse(f.pdu) THEN ParseExceptionResponse(f.pdu)
    ELSE IF Len(f.pdu) > 0 /\ f.pdu[1] # r.fc THEN ErrInvalidResponse
    ELSE ErrNone

\* What the frame really is, for the properties: "matching" when its header
\* passes the transport and it carries the request's transaction ID, unit ID
\* and function code (so is no exception response), else "other".
FrameFacts(r, f) ==
    IF /\ TransportHeaderCheck(f) = ErrNone
       /\ f.tx = r.tx /\ f.unit = r.unit
       /\ Len(f.pdu) > 0 /\ f.pdu[1] = r.fc
    THEN "matching" ELSE "other"

\* Whether the frame answers the request of r with an exception response:
\* "exception" with its exception code, "short" without, else "none".
ExceptionFacts(r, f) ==
    IF f.tx = r.tx /\ f.unit = r.unit /\ Len(f.pdu) > 0 /\ f.pdu[1] >= 128
    THEN (IF Len(f.pdu) >= 2 THEN "exception" ELSE "short")
    ELSE "none"

(***************************************************************************)
(* Client.doSend and TCPTransport.Send.                                    *)
(***************************************************************************)
\* doSend, critical section: ErrNotConnected unless Connected; then
\* RequestsTotal+1 and the transaction ID.
DoSendCheck(p) ==
    /\ req[p].pc = "ds_check"
    /\ IF client.state # StateConnected
       THEN /\ req' = [req EXCEPT ![p] = AfterDoSendErr(@, ErrNotConnected)]
            /\ UNCHANGED <<client, metrics>>
       ELSE /\ client' = [client EXCEPT !.txCounter = TxCounterNext(@)]
            /\ metrics' = [metrics EXCEPT !.RequestsTotal = @ + 1]
            /\ req' = [req EXCEPT ![p].pc = "ts_lock",
                                  ![p].tx = TxIDOf(TxCounterNext(client.txCounter))]
    /\ UNCHANGED <<opts, transport, net>>
    /\ UNCHANGED <<poolVars, serverVars, extraVars>>

\* transport.Send, from t.mu.Lock() to the end of the write loop: without a
\* socket "not connected"; the write fails (always, once the deadline of the
\* context has passed) and closes the socket, or puts the request on the
\* wire with t.mu still held.
TransportSendWrite(p) ==
    /\ req[p].pc = "ts_lock"
    /\ TransportLockFree(p)
    /\ IF transport.conn = 0
       THEN /\ metrics' = [metrics EXCEPT !.RequestsErrors = @ + 1]
            /\ req' = [req EXCEPT ![p] =
                         AfterDoSendErr([@ EXCEPT !.sends = @ + 1],
                                        ErrTransportNotConnected)]
            /\ UNCHANGED <<transport, net>>
       ELSE \/ /\ \E e \in (IF req[p].ctx = "deadline"
                            THEN {ErrIOTimeout} ELSE {ErrWrite}) :
                    req' = [req EXCEPT ![p] =
                              AfterDoSendErr(
                                [@ EXCEPT !.sends = @ + 1,
                                          !.ctxSeen = (req[p].ctx = "deadline")], e)]
               /\ transport' = [transport EXCEPT !.conn = 0]
               /\ metrics' = [metrics EXCEPT !.RequestsErrors = @ + 1]
               /\ UNCHANGED net
            \/ /\ req[p].ctx # "deadline"
               /\ transport' = [transport EXCEPT !.mu = p]
               /\ net' = [net EXCEPT !.wire = @ \cup {p}]
               /\ req' = [req EXCEPT ![p].pc = "ts_read", ![p].sends = @ + 1]
               /\ UNCHANGED metrics
    /\ UNCHANGED <<opts, client>>
    /\ UNCHANGED <<poolVars, serverVars, extraVars>>

\* transport.Send, the reads, to the deferred t.mu.Unlock(), and the rest of
\* doSend.  A failed read (always, once the deadline of the context has
\* passed) or a bad header closes the socket; else doSend validates the
\* frame, counts the outcome and sendWithUnit acts on it.
TransportSendRead(p) ==
    /\ req[p].pc = "ts_read"
    /\ transport.mu = p
    /\ net' = [net EXCEPT !.wire = @ \ {p}]
    /\ \/ /\ \E e \in (IF req[p].ctx = "deadline"
                       THEN {ErrIOTimeout} ELSE {ErrRead}) :
               req' = [req EXCEPT ![p] =
                         AfterDoSendErr(
                           [@ EXCEPT !.ctxSeen = (req[p].ctx = "deadline")], e)]
          /\ transport' = [transport EXCEPT !.conn = 0, !.mu = NoProc]
          /\ metrics' = [metrics EXCEPT !.RequestsErrors = @ + 1]
       \/ /\ req[p].ctx # "deadline"
          /\ \E f \in Responses(req[p]) :
               IF TransportHeaderCheck(f) # ErrNone
               THEN /\ transport' = [transport EXCEPT !.conn = 0, !.mu = NoProc]
                    /\ metrics' = [metrics EXCEPT !.RequestsErrors = @ + 1]
                    /\ req' = [req EXCEPT ![p] =
                                 AfterDoSendErr(
                                   [@ EXCEPT !.got = FrameFacts(req[p], f)],
                                   TransportHeaderCheck(f))]
               ELSE /\ transport' = [transport EXCEPT !.mu = NoProc]
                    /\ IF DoSendValidate(req[p], f) # ErrNone
                       THEN /\ metrics' = [metrics EXCEPT !.RequestsErrors = @ + 1]
                            /\ req' = [req EXCEPT ![p] =
                                 AfterDoSendErr(
                                   [@ EXCEPT !.got = FrameFacts(req[p], f),
                                             !.gotExc = ExceptionFacts(req[p], f),
                                             !.excFC =
                                                IF DoSendValidate(req[p], f) = ErrModbus
                                                THEN ModbusErrorFunctionCode(f.pdu)
                                                ELSE 0,
                                             !.excByte =
                                                IF DoSendValidate(req[p], f) = ErrModbus
                                                THEN f.pdu[1] ELSE 0],
                                   DoSendValidate(req[p], f))]
                       ELSE /\ UNCHANGED metrics
                            /\ req' = [req EXCEPT ![p] =
                                 Return([@ EXCEPT !.got = FrameFacts(req[p], f)],
                                        Success)]
    /\ UNCHANGED <<opts, client>>
    /\ UNCHANGED <<poolVars, serverVars, extraVars>>

(***************************************************************************)
(* The pool (pool.go).  A client of the pool is known here by its identity *)
(* and by what Client.State() and Client.Close() make of it: "connected",  *)
(* "disconnected", or "closed"; "none" before the factory has made it.     *)
(* An entry of p.conns is a *pooledClient: the client and whether its      *)
(* lastUsed is further back than maxIdleTime.                              *)
(***************************************************************************)
ErrPoolClosed == "ErrPoolClosed"
\* the runtime panic of a nil pointer dereference or of a send on a closed
\* channel
Panic == "panic"
ClientReturned == "client"
\* ctx.Err() of the context given to Get
PoolCtxErr == "ctx.Err()"

\* The goroutine p panics: the program ends, every goroutine with it.
Crashed(cs, p) ==
    [q \in DOMAIN cs |->
        IF q = p THEN [cs[q] EXCEPT !.pc = "dead", !.ret = Panic]
        ELSE [cs[q] EXCEPT !.pc = "dead"]]

\* NewPool with the options WithSize and WithMaxIdleTime (maxIdle: whether
\* maxIdleTime > 0); the health checker is started and waits for its ticker.
InitPool ==
    /\ pool \in [size : 1..MaxPoolSize, maxIdle : BOOLEAN, created : {0},
                 closed : {FALSE}, stopClosed : {FALSE}, conns : {<<>>},
                 connsClosed : {FALSE}, made : {0}, createFailures : {0},
                 calls : {0}, ctxDone : {0}, panicked : {FALSE}]
    /\ pmetrics = [Hits |-> 0, Timeouts |-> 0, Available |-> 0]
    /\ clients = [c \in 1..MaxClients |-> "none"]
    /\ callers = [p \in Procs |-> IdleCaller]
    /\ hc = [pc |-> "ticker", checked |-> <<>>, sweeps |-> 0]
    /\ pooled = NoPooled
    /\ ClientUnused
    /\ ServerUnused
    /\ ExtraUnused

\* A new call of p on the pool: its locals, the clients it holds kept.
NewCall(p, op) == [IdleCaller EXCEPT !.op = op, !.held = callers[p].held]

\* The call returns res to its caller.
PoolReturn(r, res) == [r EXCEPT !.pc = "idle", !.ret = res, !.wake = "none",
                                !.entry = NoEntry, !.arg = 0]

\* Get returns client c, which its caller now holds.
PoolReturnClient(r, c) ==
    [PoolReturn(r, ClientReturned) EXCEPT !.got = c, !.held = @ \cup {c}]

\* The mutation of the state check into "pc.client.State() == StateConnected".
StaleOnPollInverted(e) == clients[e.c] = "connected" \/ (pool.maxIdle /\ e.old)

\* pc.client.State() != StateConnected || maxIdleTime > 0 &&
\* time.Since(pc.lastUsed) > maxIdleTime: the checks of Get on an entry it
\* received in its first select.
StaleOnPoll(e) == clients[e.c] # "connected" \/ (pool.maxIdle /\ e.old)

\* The check of Get on an entry received in its waiting select: state only.
StaleOnWait(e) == clients[e.c] # "connected"

\* The check of the health sweep on an entry: healthy when Connected and
\* (maxIdleTime == 0 or not idle for longer).
Healthy(e) == clients[e.c] = "connected" /\ (~pool.maxIdle \/ ~e.old)

\* Goroutines parked in the waiting select of Get, no case of it chosen yet.
ParkedReceivers ==
    {q \in Procs : callers[q].pc = "g_parked" /\ callers[q].wake = "none"}

\* select { case p.conns <- pc: ... default: ... }: a send on a closed channel
\* panics; else the entry goes to a parked receiver, or into the buffer of
\* capacity size, or the default case runs.
SendOutcome ==
    IF pool.connsClosed THEN "panic"
    ELSE IF ParkedReceivers # {} THEN "handoff"
    ELSE IF Len(pool.conns) < pool.size THEN "queued"
    ELSE "full"

\* The mutation of the receive in which the entry stays in the channel.
ConnsAfterPeek == pool.conns

\* <-p.conns with an entry buffered: the first entry leaves the channel.
ConnsAfterReceive == Tail(pool.conns)

(***************************************************************************)
(* Pool.Get and Pool.createAndConnect.                                     *)
(***************************************************************************)
\* Get, the closed check: ErrPoolClosed, or Gets+1 and on to the first select.
PoolGetBegin(p) ==
    /\ callers[p].pc = "idle"
    /\ pool.calls < MaxPoolOps
    /\ pool' = [pool EXCEPT !.calls = @ + 1]
    /\ callers' = [callers EXCEPT ![p] =
         IF pool.closed
         THEN PoolReturn([NewCall(p, "get") EXCEPT !.startedClosed = TRUE],
                         ErrPoolClosed)
         ELSE [NewCall(p, "get") EXCEPT !.pc = "g_poll"]]
    /\ UNCHANGED <<pmetrics, clients, hc>>
    /\ UNCHANGED <<clientVars, pooled, serverVars, extraVars>>

\* Get, the first select: an entry is received (Hits+1, Available-1) and
\* returned, or found stale and its client closed; a closed and empty channel
\* yields nil, whose dereference panics; else default (Misses+1).
PoolGetPoll(p) ==
    /\ callers[p].pc = "g_poll"
    /\ IF Len(pool.conns) > 0
       THEN LET e == Head(pool.conns) IN
            /\ pool' = [pool EXCEPT !.conns = ConnsAfterReceive]
            /\ pmetrics' = [pmetrics EXCEPT !.Hits = @ + 1,
                                            !.Available = @ - 1]
            /\ IF StaleOnPoll(e)
               THEN /\ clients' = [clients EXCEPT ![e.c] = "closed"]
                    /\ callers' = [callers EXCEPT ![p].pc = "g_dec_stale"]
               ELSE /\ callers' = [callers EXCEPT ![p] =
                                     PoolReturnClient(@, e.c)]
                    /\ UNCHANGED clients
            /\ UNCHANGED hc
       ELSE IF pool.connsClosed
       THEN /\ pool' = [pool EXCEPT !.panicked = TRUE]
            /\ pmetrics' = [pmetrics EXCEPT !.Hits = @ + 1,
                                            !.Available = @ - 1]
            /\ callers' = Crashed(callers, p)
            /\ hc' = [hc EXCEPT !.pc = "dead"]
            /\ UNCHANGED clients
       ELSE /\ callers' = [callers EXCEPT ![p].pc = "g_reserve"]
            /\ UNCHANGED <<pool, pmetrics, clients, hc>>
    /\ UNCHANGED <<clientVars, pooled, serverVars, extraVars>>

\* The mutation of "p.created < p.size" into "p.created <= p.size".
SlotFreeOffByOne == pool.created <= pool.size

\* Get, under p.mu: if p.created < p.size.
SlotFree == pool.created < pool.size

\* Get, under p.mu: created < size reserves a slot (created+1) and creates;
\* else the caller goes to wait.
PoolGetReserve(p) ==
    /\ callers[p].pc = "g_reserve"
    /\ IF SlotFree
       THEN /\ pool' = [pool EXCEPT !.created = @ + 1]
            /\ callers' = [callers EXCEPT ![p].pc = "g_create"]
       ELSE /\ callers' = [callers EXCEPT ![p].pc = "g_wait"]
            /\ UNCHANGED pool
    /\ UNCHANGED <<pmetrics, clients, hc>>
    /\ UNCHANGED <<clientVars, pooled, serverVars, extraVars>>

\* Get after an entry came out of the waiting select: Available-1, then the
\* client is returned, or closed when it is not Connected.
AfterWaitReceive(p, e) ==
    /\ pmetrics' = [pmetrics EXCEPT !.Available = @ - 1]
    /\ IF StaleOnWait(e)
       THEN /\ clients' = [clients EXCEPT ![e.c] = "closed"]
            /\ callers' = [callers EXCEPT ![p] =
                 [@ EXCEPT !.pc = "g_dec_stale", !.wake = "none",
                           !.entry = NoEntry]]
       ELSE /\ callers' = [callers EXCEPT ![p] = PoolReturnClient(@, e.c)]
            /\ UNCHANGED clients

\* Get, the waiting select, entered: one of its ready cases runs (an entry in
\* p.conns, or nil from the closed channel; ctx.Done; p.stopCh closed); with
\* none ready the goroutine parks.
PoolGetWait(p) ==
    /\ callers[p].pc = "g_wait"
    /\ \/ /\ Len(pool.conns) > 0
          /\ pool' = [pool EXCEPT !.conns = ConnsAfterReceive]
          /\ AfterWaitReceive(p, Head(pool.conns))
          /\ UNCHANGED hc
       \/ /\ Len(pool.conns) = 0 /\ pool.connsClosed
          /\ pool' = [pool EXCEPT !.panicked = TRUE]
          /\ pmetrics' = [pmetrics EXCEPT !.Available = @ - 1]
          /\ callers' = Crashed(callers, p)
          /\ hc' = [hc EXCEPT !.pc = "dead"]
          /\ UNCHANGED clients
       \/ /\ callers[p].ctx = "done"
          /\ pmetrics' = [pmetrics EXCEPT !.Timeouts = @ + 1]
          /\ callers' = [callers EXCEPT ![p] = PoolReturn(@, PoolCtxErr)]
          /\ UNCHANGED <<pool, clients, hc>>
       \/ /\ pool.stopClosed
          /\ callers' = [callers EXCEPT ![p] = PoolReturn(@, ErrPoolClosed)]
          /\ UNCHANGED <<pool, pmetrics, clients, hc>>
       \/ /\ Len(pool.conns) = 0 /\ ~pool.connsClosed
          /\ callers[p].ctx = "live" /\ ~pool.stopClosed
          /\ callers' = [callers EXCEPT ![p].pc = "g_parked"]
          /\ UNCHANGED <<pool, pmetrics, clients, hc>>
    /\ UNCHANGED <<clientVars, pooled, serverVars, extraVars>>

\* Get, woken out of the waiting select by the event that came first: an
\* entry handed over by a sender, ctx.Done, or the close of p.stopCh.
PoolGetWoken(p) ==
    /\ callers[p].pc = "g_parked"
    /\ callers[p].wake # "none"
    /\ \/ /\ callers[p].wake = "recv"
          /\ AfterWaitReceive(p, callers[p].entry)
       \/ /\ callers[p].wake = "ctx"
          /\ pmetrics' = [pmetrics EXCEPT !.Timeouts = @ + 1]
          /\ callers' = [callers EXCEPT ![p] = PoolReturn(@, PoolCtxErr)]
          /\ UNCHANGED clients
       \/ /\ callers[p].wake = "stop"
          /\ callers' = [callers EXCEPT ![p] = PoolReturn(@, ErrPoolClosed)]
          /\ UNCHANGED <<pmetrics, clients>>
    /\ UNCHANGED <<pool, hc>>
    /\ UNCHANGED <<clientVars, pooled, serverVars, extraVars>>

\* decrementCreated, under p.mu, and what its caller does next: Get after a
\* stale entry goes on to createAndConnect; createAndConnect returns its
\* error; Put, ForceClose count Closed and return.
PoolDecrementCreated(p) ==
    /\ callers[p].pc \in {"g_dec_stale", "g_dec_fail", "p_dec"}
    /\ pool' = [pool EXCEPT !.created = @ - 1]
    /\ callers' = [callers EXCEPT ![p] =
         IF @.pc = "g_dec_stale" THEN [@ EXCEPT !.pc = "g_create"]
         ELSE IF @.pc = "g_dec_fail" THEN PoolReturn(@, ErrDial)
         ELSE PoolReturn(@, Success)]
    /\ UNCHANGED <<pmetrics, clients, hc>>
    /\ UNCHANGED <<clientVars, pooled, serverVars, extraVars>>

\* createAndConnect: the factory makes a client and client.Connect(ctx)
\* connects it (the client is returned), or fails (always, when
\* ctx is done): the new client is closed and created is to be decremented.
PoolCreateAndConnect(p) ==
    /\ callers[p].pc = "g_create"
    /\ \/ /\ callers[p].ctx = "live"
          /\ pool.made < MaxClients
          /\ pool' = [pool EXCEPT !.made = @ + 1]
          /\ clients' = [clients EXCEPT ![pool.made + 1] = "connected"]
          /\ callers' = [callers EXCEPT ![p] =
                           PoolReturnClient(@, pool.made + 1)]
       \/ /\ callers[p].ctx = "done" \/ pool.createFailures < MaxCreateFailures
          /\ pool' = [pool EXCEPT !.createFailures =
                        IF callers[p].ctx = "live" THEN @ + 1 ELSE @]
          /\ callers' = [callers EXCEPT ![p].pc = "g_dec_fail"]
          /\ UNCHANGED clients
    /\ UNCHANGED <<pmetrics, hc>>
    /\ UNCHANGED <<clientVars, pooled, serverVars, extraVars>>

\* The context of a Get is cancelled or its deadline fires; a Get parked in
\* its waiting select is woken by it.
PoolCtxDone(p) ==
    /\ callers[p].op = "get"
    /\ callers[p].pc # "idle"
    /\ callers[p].ctx = "live"
    /\ pool.ctxDone < MaxPoolCtxDone
    /\ pool' = [pool EXCEPT !.ctxDone = @ + 1]
    /\ callers' = [callers EXCEPT ![p] =
         [@ EXCEPT !.ctx = "done",
                   !.wake = IF p \in ParkedReceivers THEN "ctx" ELSE @]]
    /\ UNCHANGED <<pmetrics, clients, hc>>
    /\ UNCHANGED <<clientVars, pooled, serverVars, extraVars>>

(***************************************************************************)
(* Pool.Put and PooledClient.ForceClose / Discard.                         *)
(***************************************************************************)
\* Put(client) by the goroutine that holds it, the closed check: on a closed
\* pool the client is closed and created is to be decremented; else Puts+1.
PoolPutBegin(p) ==
    /\ callers[p].pc = "idle"
    /\ pool.calls < MaxPoolOps
    /\ \E c \in callers[p].held :
         LET r == [NewCall(p, "put") EXCEPT !.held = @ \ {c}, !.arg = c] IN
         IF pool.closed
         THEN /\ clients' = [clients EXCEPT ![c] = "closed"]
              /\ callers' = [callers EXCEPT ![p] = [r EXCEPT !.pc = "p_dec"]]
         ELSE /\ callers' = [callers EXCEPT ![p] = [r EXCEPT !.pc = "p_send"]]
              /\ UNCHANGED clients
    /\ pool' = [pool EXCEPT !.calls = @ + 1]
    /\ UNCHANGED <<pmetrics, hc>>
    /\ UNCHANGED <<clientVars, pooled, serverVars, extraVars>>

\* Put, the state check and the select that sends: a client that is not
\* Connected is closed; else the entry, lastUsed = now, is sent
\* (Available+1), or with the pool full the client is closed.
PoolPutSend(p) ==
    /\ callers[p].pc = "p_send"
    /\ LET c == callers[p].arg
           e == [c |-> c, old |-> FALSE] IN
       IF clients[c] # "connected"
       THEN /\ clients' = [clients EXCEPT ![c] = "closed"]
            /\ callers' = [callers EXCEPT ![p].pc = "p_dec"]
            /\ UNCHANGED <<pool, pmetrics, hc>>
       ELSE CASE SendOutcome = "panic" ->
                 /\ pool' = [pool EXCEPT !.panicked = TRUE]
                 /\ callers' = Crashed(callers, p)
                 /\ hc' = [hc EXCEPT !.pc = "dead"]
                 /\ UNCHANGED <<pmetrics, clients>>
              [] SendOutcome = "handoff" ->
                 /\ \E q \in ParkedReceivers :
                      callers' = [callers EXCEPT
                                    ![q] = [@ EXCEPT !.wake = "recv", !.entry = e],
                                    ![p] = PoolReturn(@, Success)]
                 /\ pmetrics' = [pmetrics EXCEPT !.Available = @ + 1]
                 /\ UNCHANGED <<pool, clients, hc>>
              [] SendOutcome = "queued" ->
                 /\ pool' = [pool EXCEPT !.conns = Append(@, e)]
                 /\ pmetrics' = [pmetrics EXCEPT !.Available = @ + 1]
                 /\ callers' = [callers EXCEPT ![p] = PoolReturn(@, Success)]
                 /\ UNCHANGED <<clients, hc>>
              [] SendOutcome = "full" ->
                 /\ clients' = [clients EXCEPT ![c] = "closed"]
                 /\ callers' = [callers EXCEPT ![p].pc = "p_dec"]
                 /\ UNCHANGED <<pool, pmetrics, hc>>
    /\ UNCHANGED <<clientVars, pooled, serverVars, extraVars>>

\* PooledClient.ForceClose (Discard), first call on the wrapper of a client
\* its goroutine holds: decrementCreated, Closed+1, ...
PooledClientForceClose(p) ==
    /\ callers[p].pc = "idle"
    /\ pool.calls < MaxPoolOps
    /\ \E c \in callers[p].held :
         callers' = [callers EXCEPT ![p] =
            [NewCall(p, "discard") EXCEPT !.held = @ \ {c}, !.arg = c,
                                          !.pc = "d_close"]]
    /\ pool' = [pool EXCEPT !.calls = @ + 1, !.created = @ - 1]
    /\ UNCHANGED <<pmetrics, clients, hc>>
    /\ UNCHANGED <<clientVars, pooled, serverVars, extraVars>>

\* ... then pc.Client.Close().
PooledClientForceCloseClient(p) ==
    /\ callers[p].pc = "d_close"
    /\ clients' = [clients EXCEPT ![callers[p].arg] = "closed"]
    /\ callers' = [callers EXCEPT ![p] = PoolReturn(@, Success)]
    /\ UNCHANGED <<pool, pmetrics, hc>>
    /\ UNCHANGED <<clientVars, pooled, serverVars, extraVars>>

\* A request on a checked-out client ends in handleDisconnect: the client is
\* Disconnected from then on.
ClientDisconnects(p) ==
    /\ callers[p].pc # "dead"
    /\ \E c \in callers[p].held :
         /\ clients[c] = "connected"
         /\ clients' = [clients EXCEPT ![c] = "disconnected"]
    /\ UNCHANGED <<pool, pmetrics, callers, hc>>
    /\ UNCHANGED <<clientVars, pooled, serverVars, extraVars>>

\* Time passes, more than maxIdleTime of it: every idle entry, in p.conns,
\* in the hands of the health sweep or on its way to a woken Get, is now
\* idle for longer than maxIdleTime.
Aged(e) == [e EXCEPT !.old = TRUE]

AgedSeq(q) == [i \in 1..Len(q) |-> Aged(q[i])]

MaxIdleTimePasses ==
    /\ pool.maxIdle
    /\ ~pool.panicked
    /\ \/ \E i \in 1..Len(pool.conns) : ~pool.conns[i].old
       \/ \E i \in 1..Len(hc.checked) : ~hc.checked[i].old
    /\ pool' = [pool EXCEPT !.conns = AgedSeq(@)]
    /\ hc' = [hc EXCEPT !.checked = AgedSeq(@)]
    /\ callers' = [q \in Procs |->
                     IF callers[q].entry = NoEntry THEN callers[q]
                     ELSE [callers[q] EXCEPT !.entry = Aged(@)]]
    /\ UNCHANGED <<pmetrics, clients>>
    /\ UNCHANGED <<clientVars, pooled, serverVars, extraVars>>

(***************************************************************************)
(* Pool.Close.                                                             *)
(***************************************************************************)
\* Close, the compare-and-swap of closed: a second Close returns at once.
PoolCloseBegin(p) ==
    /\ callers[p].pc = "idle"
    /\ pool.calls < MaxPoolOps
    /\ IF pool.closed
       THEN /\ pool' = [pool EXCEPT !.calls = @ + 1]
            /\ callers' = [callers EXCEPT ![p] =
                             PoolReturn(NewCall(p, "close"), Success)]
       ELSE /\ pool' = [pool EXCEPT !.calls = @ + 1, !.closed = TRUE]
            /\ callers' = [q \in Procs |->
                 IF q = p THEN [NewCall(p, "close") EXCEPT !.pc = "c_stop"]
                 ELSE IF callers[q].pc = "g_wait" \/ q \in ParkedReceivers
                 THEN [callers[q] EXCEPT !.atClose = TRUE]
                 ELSE callers[q]]
    /\ UNCHANGED <<pmetrics, clients, hc>>
    /\ UNCHANGED <<clientVars, pooled, serverVars, extraVars>>

\* Close, close(p.stopCh): the Gets parked in their waiting select wake with
\* the stop case.
PoolCloseStopCh(p) ==
    /\ callers[p].pc = "c_stop"
    /\ pool' = [pool EXCEPT !.stopClosed = TRUE]
    /\ callers' = [q \in Procs |->
         IF q = p THEN [callers[q] EXCEPT !.pc = "c_conns"]
         ELSE IF q \in ParkedReceivers THEN [callers[q] EXCEPT !.wake = "stop"]
         ELSE callers[q]]
    /\ UNCHANGED <<pmetrics, clients, hc>>
    /\ UNCHANGED <<clientVars, pooled, serverVars, extraVars>>

\* Close, close(p.conns).
PoolCloseConns(p) ==
    /\ callers[p].pc = "c_conns"
    /\ pool' = [pool EXCEPT !.connsClosed = TRUE]
    /\ callers' = [callers EXCEPT ![p].pc = "c_drain"]
    /\ UNCHANGED <<pmetrics, clients, hc>>
    /\ UNCHANGED <<clientVars, pooled, serverVars, extraVars>>

\* Close, for pc := range p.conns: each entry's client is closed (Closed+1);
\* the loop ends when the closed channel is empty.
PoolCloseDrain(p) ==
    /\ callers[p].pc = "c_drain"
    /\ IF Len(pool.conns) > 0
       THEN /\ pool' = [pool EXCEPT !.conns = ConnsAfterReceive]
            /\ clients' = [clients EXCEPT ![Head(pool.conns).c] = "closed"]
            /\ UNCHANGED callers
       ELSE /\ callers' = [callers EXCEPT ![p].pc = "c_wg"]
            /\ UNCHANGED <<pool, clients>>
    /\ UNCHANGED <<pmetrics, hc>>
    /\ UNCHANGED <<clientVars, pooled, serverVars, extraVars>>

\* Close, p.wg.Wait(): returns when the health checker has returned.
PoolCloseWait(p) ==
    /\ callers[p].pc = "c_wg"
    /\ hc.pc = "returned"
    /\ callers' = [callers EXCEPT ![p] = PoolReturn(@, Success)]
    /\ UNCHANGED <<pool, pmetrics, clients, hc>>
    /\ UNCHANGED <<clientVars, pooled, serverVars, extraVars>>

(***************************************************************************)
(* Pool.healthChecker and Pool.checkHealth.                                *)
(***************************************************************************)
\* healthChecker, the select on the ticker and p.stopCh: on a tick it
\* returns when closed is set, else starts a sweep.
HealthTick ==
    /\ hc.pc = "ticker"
    /\ IF pool.closed
       THEN hc' = [hc EXCEPT !.pc = "returned"]
       ELSE /\ hc.sweeps < MaxSweeps
            /\ hc' = [hc EXCEPT !.pc = "h_drain", !.sweeps = @ + 1]
    /\ UNCHANGED <<pool, pmetrics, clients, callers>>
    /\ UNCHANGED <<clientVars, pooled, serverVars, extraVars>>

\* healthChecker, the stop case of its select.
HealthStop ==
    /\ hc.pc = "ticker"
    /\ pool.stopClosed
    /\ hc' = [hc EXCEPT !.pc = "returned"]
    /\ UNCHANGED <<pool, pmetrics, clients, callers>>
    /\ UNCHANGED <<clientVars, pooled, serverVars, extraVars>>

\* checkHealth, the receive case of its select: an entry (Available-1) is
\* kept when healthy, else its client is closed and created is to be
\* decremented; on the closed and empty channel the sweep returns, leaving
\* the entries it has kept.
HealthDrain ==
    /\ hc.pc = "h_drain"
    /\ IF Len(pool.conns) > 0
       THEN LET e == Head(pool.conns) IN
            /\ pool' = [pool EXCEPT !.conns = ConnsAfterReceive]
            /\ pmetrics' = [pmetrics EXCEPT !.Available = @ - 1]
            /\ IF Healthy(e)
               THEN /\ hc' = [hc EXCEPT !.checked = Append(@, e)]
                    /\ UNCHANGED clients
               ELSE /\ hc' = [hc EXCEPT !.pc = "h_dec_drain"]
                    /\ clients' = [clients EXCEPT ![e.c] = "closed"]
       ELSE /\ pool.connsClosed
            /\ hc' = [hc EXCEPT !.pc = "ticker", !.checked = <<>>]
            /\ UNCHANGED <<pool, pmetrics, clients>>
    /\ UNCHANGED callers
    /\ UNCHANGED <<clientVars, pooled, serverVars, extraVars>>

\* checkHealth, the timeout case (the 100ms timer has fired) or, with no
\* entry to receive, the default case: on to putting the kept entries back.
HealthDrainEnd ==
    /\ hc.pc = "h_drain"
    /\ hc' = [hc EXCEPT !.pc = "h_put"]
    /\ UNCHANGED <<pool, pmetrics, clients, callers>>
    /\ UNCHANGED <<clientVars, pooled, serverVars, extraVars>>

\* checkHealth, decrementCreated (and Closed+1) after closing a client, in
\* the drain or while putting back.
HealthDecrementCreated ==
    /\ hc.pc \in {"h_dec_drain", "h_dec_put"}
    /\ pool' = [pool EXCEPT !.created = @ - 1]
    /\ hc' = [hc EXCEPT !.pc = IF @ = "h_dec_drain" THEN "h_drain" ELSE "h_put"]
    /\ UNCHANGED <<pmetrics, clients, callers>>
    /\ UNCHANGED <<clientVars, pooled, serverVars, extraVars>>

\* checkHealth, for _, pc := range checked: the select that sends the entry
\* back (Available+1), or closes its client when the pool is full; after the
\* last one the sweep returns to the ticker.
HealthPutBack ==
    /\ hc.pc = "h_put"
    /\ IF Len(hc.checked) = 0
       THEN /\ hc' = [hc EXCEPT !.pc = "ticker"]
            /\ UNCHANGED <<pool, pmetrics, clients, callers>>
       ELSE LET e == Head(hc.checked) IN
            CASE SendOutcome = "panic" ->
                 /\ pool' = [pool EXCEPT !.panicked = TRUE]
                 /\ hc' = [hc EXCEPT !.pc = "dead"]
                 /\ callers' = [q \in Procs |-> [callers[q] EXCEPT !.pc = "dead"]]
                 /\ UNCHANGED <<pmetrics, clients>>
              [] SendOutcome = "handoff" ->
                 /\ \E q \in ParkedReceivers :
                      callers' = [callers EXCEPT
                                    ![q] = [@ EXCEPT !.wake = "recv", !.entry = e]]
                 /\ pmetrics' = [pmetrics EXCEPT !.Available = @ + 1]
                 /\ hc' = [hc EXCEPT !.checked = Tail(@)]
                 /\ UNCHANGED <<pool, clients>>
              [] SendOutcome = "queued" ->
                 /\ pool' = [pool EXCEPT !.conns = Append(@, e)]
                 /\ pmetrics' = [pmetrics EXCEPT !.Available = @ + 1]
                 /\ hc' = [hc EXCEPT !.checked = Tail(@)]
                 /\ UNCHANGED <<clients, callers>>
              [] SendOutcome = "full" ->
                 /\ clients' = [clients EXCEPT ![e.c] = "closed"]
                 /\ hc' = [hc EXCEPT !.checked = Tail(@), !.pc = "h_dec_put"]
                 /\ UNCHANGED <<pool, pmetrics, callers>>
    /\ UNCHANGED <<clientVars, pooled, serverVars, extraVars>>

(***************************************************************************)
(* One PooledClient, shared by the goroutines, which call Close, ForceClose *)
(* and Discard on it in any order and number.                              *)
(***************************************************************************)
\* The client that the PooledClient wraps.
PooledClientID == 1

\* GetPooled on a new pool has returned the PooledClient: its client is
\* checked out and was used since (Connected, or Disconnected by a failed
\* request); the pool is open, or Pool.Close has run to its end meanwhile.
InitPooled ==
    /\ \E sz \in 1..MaxPoolSize, mi \in BOOLEAN, cl \in BOOLEAN :
         /\ pool = [size |-> sz, maxIdle |-> mi, created |-> 1, closed |-> cl,
                    stopClosed |-> cl, conns |-> <<>>, connsClosed |-> cl,
                    made |-> 1, createFailures |-> 0, calls |-> 1,
                    ctxDone |-> 0, panicked |-> FALSE]
         /\ hc = [pc |-> IF cl THEN "returned" ELSE "ticker",
                  checked |-> <<>>, sweeps |-> 0]
    /\ pmetrics = [Hits |-> 0, Timeouts |-> 0, Available |-> 0]
    /\ clients \in {[c \in 1..MaxClients |->
                       IF c = PooledClientID THEN st ELSE "none"] :
                    st \in {"connected", "disconnected"}}
    /\ callers = [p \in Procs |-> IdleCaller]
    /\ pooled = NoPooled
    /\ ClientUnused
    /\ ServerUnused
    /\ ExtraUnused

\* pc.mu is held by the goroutine that is inside Close or ForceClose.
PooledMuFree ==
    \A q \in Procs :
        callers[q].op \in {"pooled.Close", "pooled.ForceClose"}
        => callers[q].pc \in {"idle", "dead"}

\* The mutation that drops the check of pc.returned.
AlreadyReturnedUnchecked == FALSE

\* if pc.returned { return nil }
AlreadyReturned == pooled.returned

\* PooledClient.Close, under pc.mu: a no-op when returned is set; else
\* returned is set and pool.Put(pc.Client) runs, here to its check of
\* p.closed (the rest of Put is PoolPutSend, PoolDecrementCreated), pc.mu
\* being released when Put returns.
PooledClientClose(p) ==
    /\ callers[p].pc = "idle"
    /\ pooled.calls < MaxPooledCalls
    /\ PooledMuFree
    /\ LET r == [NewCall(p, "pooled.Close") EXCEPT !.arg = PooledClientID] IN
       IF AlreadyReturned
       THEN /\ callers' = [callers EXCEPT ![p] = PoolReturn(r, Success)]
            /\ pooled' = [pooled EXCEPT !.calls = @ + 1]
            /\ UNCHANGED clients
       ELSE /\ pooled' = [pooled EXCEPT !.calls = @ + 1, !.returned = TRUE,
                                        !.puts = @ + 1]
            /\ IF pool.closed
               THEN /\ clients' = [clients EXCEPT
                                     ![PooledClientID] = "closed"]
                    /\ callers' = [callers EXCEPT
                                     ![p] = [r EXCEPT !.pc = "p_dec"]]
               ELSE /\ callers' = [callers EXCEPT
                                     ![p] = [r EXCEPT !.pc = "p_send"]]
                    /\ UNCHANGED clients
    /\ UNCHANGED <<pool, pmetrics, hc>>
    /\ UNCHANGED <<clientVars, serverVars, extraVars>>

\* PooledClient.ForceClose, and Discard which calls it, under pc.mu: a no-op
\* when returned is set; else returned is set and created is decremented
\* (pc.Client.Close() is PooledClientForceCloseClient).
PooledClientDiscard(p) ==
    /\ callers[p].pc = "idle"
    /\ pooled.calls < MaxPooledCalls
    /\ PooledMuFree
    /\ LET r == [NewCall(p, "pooled.ForceClose") EXCEPT
                                              !.arg = PooledClientID] IN
       IF AlreadyReturned
       THEN /\ callers' = [callers EXCEPT ![p] = PoolReturn(r, Success)]
            /\ pooled' = [pooled EXCEPT !.calls = @ + 1]
            /\ UNCHANGED pool
       ELSE /\ pooled' = [pooled EXCEPT !.calls = @ + 1, !.returned = TRUE,
                                        !.decrements = @ + 1]
            /\ pool' = [pool EXCEPT !.created = @ - 1]
            /\ callers' = [callers EXCEPT ![p] = [r EXCEPT !.pc = "d_close"]]
    /\ UNCHANGED <<pmetrics, clients, hc>>
    /\ UNCHANGED <<clientVars, serverVars, extraVars>>

NextPooled ==
    \E p \in Procs :
        \/ PooledClientClose(p)
        \/ PooledClientDiscard(p)
        \/ PoolPutSend(p)
        \/ PoolDecrementCreated(p)
        \/ PooledClientForceCloseClient(p)

SpecPooled == InitPooled /\ [][NextPooled]_vars

(***************************************************************************)
(* The pool model.  A panic ends the program.                              *)
(***************************************************************************)
NextPool ==
    \/ \E p \in Procs :
        \/ PoolGetBegin(p)
        \/ PoolGetPoll(p)
        \/ PoolGetReserve(p)
        \/ PoolGetWait(p)
        \/ PoolGetWoken(p)
        \/ PoolDecrementCreated(p)
        \/ PoolCreateAndConnect(p)
        \/ PoolCtxDone(p)
        \/ PoolPutBegin(p)
        \/ PoolPutSend(p)
        \/ PooledClientForceClose(p)
        \/ PooledClientForceCloseClient(p)
        \/ ClientDisconnects(p)
        \/ PoolCloseBegin(p)
        \/ PoolCloseStopCh(p)
        \/ PoolCloseConns(p)
        \/ PoolCloseDrain(p)
        \/ PoolCloseWait(p)
    \/ MaxIdleTimePasses
    \/ HealthTick
    \/ HealthStop
    \/ HealthDrain
    \/ HealthDrainEnd
    \/ HealthDecrementCreated
    \/ HealthPutBack

SpecPool == InitPool /\ [][NextPool]_vars

\* The steps of a goroutine inside a pool call that wait for nothing (the Go
\* scheduler runs a goroutine that can run), and those of the health checker,
\* whose ticker fires.  Starting a call, a context ending, a client losing
\* its connection and time passing are left to their environment.
PoolCallRuns(p) ==
    \/ PoolGetPoll(p)
    \/ PoolGetReserve(p)
    \/ PoolGetWait(p)
    \/ PoolGetWoken(p)
    \/ PoolDecrementCreated(p)
    \/ PoolCreateAndConnect(p)
    \/ PoolPutSend(p)
    \/ PooledClientForceCloseClient(p)
    \/ PoolCloseStopCh(p)
    \/ PoolCloseConns(p)
    \/ PoolCloseDrain(p)
    \/ PoolCloseWait(p)

HealthRuns ==
    \/ HealthTick
    \/ HealthStop
    \/ HealthDrain
    \/ HealthDrainEnd
    \/ HealthDecrementCreated
    \/ HealthPutBack

FairSpecPool ==
    /\ SpecPool
    /\ \A p \in Procs : WF_vars(PoolCallRuns(p))
    /\ WF_vars(HealthRuns)

(***************************************************************************)
(* The client model.                                                       *)
(***************************************************************************)
NextClient ==
    \E p \in Procs :
        \/ StartRequest(p)
        \/ ResultTaken(p)
        \/ StartConnect(p)
        \/ CtxDone(p)
        \/ ConnectBegin(p)
        \/ TransportConnect(p)
        \/ ConnectOK(p)
        \/ ConnectFail(p)
        \/ ClientClose(p)
        \/ ClientCloseTransport(p)
        \/ ReconnectCheck(p)
        \/ ReconnectBackoff(p)
        \/ HandleDisconnectState(p)
        \/ HandleDisconnectClose(p)
        \/ DoSendCheck(p)
        \/ TransportSendWrite(p)
        \/ TransportSendRead(p)

SpecClient == InitClient /\ [][NextClient]_vars

(***************************************************************************)
(* The server: Serve, Close, handleConn, processRequest.  Every critical   *)
(* section of s.mu is one step.                                            *)
(***************************************************************************)
\* The request frames the peers send: a read and a write the Handler is
\* called for, a function code no case of processRequest handles, one with
\* its high bit set, a frame with an empty PDU, and a read too short to parse.
\* ReadFrame has checked the protocol ID of each.
Requests ==
    {[tx |-> 1, protocol |-> ProtocolID, unit |-> 1,
      pdu |-> <<FuncReadHoldingRegisters, 0, 0, 0, 1>>],
     [tx |-> 2, protocol |-> ProtocolID, unit |-> 2,
      pdu |-> <<FuncWriteSingleRegister, 0, 0, 0, 1>>],
     [tx |-> 65535, protocol |-> ProtocolID, unit |-> 255, pdu |-> <<65>>],
     [tx |-> 1, protocol |-> ProtocolID, unit |-> 255, pdu |-> <<200>>],
     [tx |-> 2, protocol |-> ProtocolID, unit |-> 1, pdu |-> <<>>],
     [tx |-> 65535, protocol |-> ProtocolID, unit |-> 2,
      pdu |-> <<FuncReadHoldingRegisters>>]}

\* What a method of the Handler returns: no error, a *ModbusError with an
\* exception code, or another error (a wrapped *ModbusError is one).
HandlerResults ==
    {[err |-> "nil", code |-> 0],
     [err |-> "ModbusError", code |-> ExceptionIllegalDataAddress],
     [err |-> "ModbusError", code |-> ExceptionIllegalDataValue],
     [err |-> "other", code |-> 0]}

\* byte(fc) | 0x80
WithHighBit(fc) == IF fc >= 128 THEN fc ELSE fc + 128

\* The mutation that leaves the function code as it is.
buildExceptionPlain(fc, ec) == <<fc, ec>>

buildException(fc, ec) == <<WithHighBit(fc), ec>>

handleError(fc, h) ==
    IF h.err = "ModbusError" THEN buildException(fc, h.code)
    ELSE buildException(fc, ExceptionServerDeviceFailure)

\* The function codes of the switch of processRequest that the model sends.
HandledFuncs == {FuncReadHoldingRegisters, FuncWriteSingleRegister}

\* The checks of handleReadHoldingRegisters, handleWriteSingleRegister
\* before the Handler is called: len(pdu) < 5.
CallsHandler(r) ==
    Len(r.pdu) >= 1 /\ r.pdu[1] \in HandledFuncs /\ Len(r.pdu) >= 5

\* The PDU of a normal response: byte count and register for a read, the
\* echo of the request for a write.
NormalPDU(r) ==
    IF r.pdu[1] = FuncReadHoldingRegisters
    THEN <<FuncReadHoldingRegisters, 2, 0, 0>>
    ELSE r.pdu

\* The mutation that answers with the default unit ID.
ResponseHeaderDefaultUnit(r) == [tx |-> r.tx, unit |-> DefaultUnitID]

\* The header of the response: TransactionID and UnitID of the request.
ResponseHeader(r) == [tx |-> r.tx, unit |-> r.unit]

\* processRequest, h being what the Handler returns if it is called.
processRequest(r, h) ==
    [tx |-> ResponseHeader(r).tx, protocol |-> ProtocolID,
     unit |-> ResponseHeader(r).unit,
     pdu |-> IF Len(r.pdu) < 1
             THEN buildException(0, ExceptionIllegalFunction)
             ELSE IF r.pdu[1] \notin HandledFuncs
             THEN buildException(r.pdu[1], ExceptionIllegalFunction)
             ELSE IF Len(r.pdu) < 5
             THEN buildException(r.pdu[1], ExceptionIllegalDataValue)
             ELSE IF h.err = "nil" THEN NormalPDU(r)
             ELSE handleError(r.pdu[1], h)]

\* WithMaxConnections(n), and Serve about to be called.
InitServer ==
    /\ \E n \in 1..MaxConnsBound : NewServer(n)
    /\ ClientUnused
    /\ PoolUnused
    /\ ExtraUnused

\* Serve: s.listener = listener, under s.mu.
ServeSetListener ==
    /\ serve.pc = "start"
    /\ srv' = [srv EXCEPT !.listener = "set"]
    /\ serve' = [serve EXCEPT !.pc = "accept"]
    /\ UNCHANGED <<closer, workers, sock>>
    /\ UNCHANGED <<clientVars, poolVars, extraVars>>

\* listener.Accept() returns a socket, a peer having connected.
ServeAccept ==
    /\ serve.pc = "accept"
    /\ ~srv.listenerClosed
    /\ srv.accepted < MaxAccepts
    /\ LET c == srv.accepted + 1 IN
       /\ srv' = [srv EXCEPT !.accepted = c]
       /\ sock' = [sock EXCEPT ![c].state = "open"]
       /\ serve' = [serve EXCEPT !.pc = "register", !.conn = c]
    /\ UNCHANGED <<closer, workers>>
    /\ UNCHANGED <<clientVars, poolVars, extraVars>>

\* listener.Accept() fails on the closed listener: s.closed is 1 and Serve
\* returns nil.
ServeAcceptClosed ==
    /\ serve.pc = "accept"
    /\ srv.listenerClosed
    /\ srv.closed
    /\ serve' = [serve EXCEPT !.pc = "returned"]
    /\ UNCHANGED <<srv, closer, workers, sock>>
    /\ UNCHANGED <<clientVars, poolVars, extraVars>>

\* The mutation of the limit check into len(s.conns) > s.opts.maxConns.
AtMaxConnsOffByOne == Cardinality(srv.conns) > srv.maxConns

\* len(s.conns) >= s.opts.maxConns
AtMaxConns == Cardinality(srv.conns) >= srv.maxConns

\* Serve, under s.mu: at the limit the socket is closed and the loop
\* continues; else the socket is registered.
ServeRegister ==
    /\ serve.pc = "register"
    /\ IF AtMaxConns
       THEN /\ sock' = [sock EXCEPT ![serve.conn].state = "closed",
                                    ![serve.conn].rejected = TRUE]
            /\ serve' = [serve EXCEPT !.pc = "accept", !.conn = 0]
            /\ UNCHANGED srv
       ELSE /\ srv' = [srv EXCEPT !.conns = @ \cup {serve.conn}]
            /\ serve' = [serve EXCEPT !.pc = "spawn"]
            /\ UNCHANGED sock
    /\ UNCHANGED <<closer, workers>>
    /\ UNCHANGED <<clientVars, poolVars, extraVars>>

\* Serve: s.wg.Add(1); go s.handleConn(conn).
ServeSpawn ==
    /\ serve.pc = "spawn"
    /\ srv' = [srv EXCEPT !.wg = @ + 1]
    /\ workers' = [workers EXCEPT ![serve.conn].pc = "loop"]
    /\ serve' = [serve EXCEPT !.pc = "accept", !.conn = 0]
    /\ UNCHANGED <<closer, sock>>
    /\ UNCHANGED <<clientVars, poolVars, extraVars>>

\* Close is called, by its caller or by the watcher of
\* ListenAndServeContext whose context is done: the compare-and-swap of
\* s.closed.  (Only the first call gets past it.)
CloseBegin ==
    /\ closer.pc = "idle"
    /\ ~srv.closed
    /\ srv' = [srv EXCEPT !.closed = TRUE]
    /\ closer' = [closer EXCEPT !.pc = "lock"]
    /\ UNCHANGED <<serve, workers, sock>>
    /\ UNCHANGED <<clientVars, poolVars, extraVars>>

\* Close, under s.mu: the listener is closed if s.listener is set, and
\* every registered socket is closed.
CloseLocked ==
    /\ closer.pc = "lock"
    /\ srv' = [srv EXCEPT !.listenerClosed = (srv.listener = "set")]
    /\ sock' = [c \in 1..MaxAccepts |->
                  IF c \in srv.conns THEN [sock[c] EXCEPT !.state = "closed"]
                  ELSE sock[c]]
    /\ closer' = [closer EXCEPT !.pc = "wait"]
    /\ UNCHANGED <<serve, workers>>
    /\ UNCHANGED <<clientVars, poolVars, extraVars>>

\* Close: s.wg.Wait() returns, the counter being zero, and Close returns.
CloseWait ==
    /\ closer.pc = "wait"
    /\ srv.wg = 0
    /\ closer' = [closer EXCEPT !.pc = "returned"]
    /\ UNCHANGED <<srv, serve, workers, sock>>
    /\ UNCHANGED <<clientVars, poolVars, extraVars>>

\* A peer sends a request frame on its socket.
PeerSends(c) ==
    /\ sock[c].state = "open"
    /\ srv.requests < MaxRequests
    /\ \E r \in Requests : sock' = [sock EXCEPT ![c].inbox = Append(@, r)]
    /\ srv' = [srv EXCEPT !.requests = @ + 1]
    /\ UNCHANGED <<serve, closer, workers>>
    /\ UNCHANGED <<clientVars, poolVars, extraVars>>

\* handleConn, the head of its loop: it returns when s.closed is 1.
WorkerCheckClosed(c) ==
    /\ workers[c].pc = "loop"
    /\ workers' = [workers EXCEPT ![c].pc =
                     IF srv.closed THEN "exit" ELSE "read"]
    /\ UNCHANGED <<srv, serve, closer, sock>>
    /\ UNCHANGED <<clientVars, poolVars, extraVars>>

\* handleConn: ReadFrame returns the next request frame.
WorkerReadFrame(c) ==
    /\ workers[c].pc = "read"
    /\ sock[c].state = "open"
    /\ Len(sock[c].inbox) > 0
    /\ workers' = [workers EXCEPT ![c].pc = "process",
                                  ![c].frame = Head(sock[c].inbox)]
    /\ sock' = [sock EXCEPT ![c].inbox = Tail(@),
                            ![c].reads = Append(@, Head(sock[c].inbox))]
    /\ UNCHANGED <<srv, serve, closer>>
    /\ UNCHANGED <<clientVars, poolVars, extraVars>>

\* handleConn: ReadFrame fails, the socket having been closed by Close, or
\* the peer having closed it, the read deadline having passed or the frame
\* being invalid; handleConn returns.
WorkerReadFails(c) ==
    /\ workers[c].pc = "read"
    /\ \/ /\ sock[c].state = "closed"
          /\ UNCHANGED srv
       \/ /\ sock[c].state = "open"
          /\ srv.readErrors < MaxReadErrors
          /\ srv' = [srv EXCEPT !.readErrors = @ + 1]
    /\ workers' = [workers EXCEPT ![c].pc = "exit"]
    /\ UNCHANGED <<serve, closer, sock>>
    /\ UNCHANGED <<clientVars, poolVars, extraVars>>

\* handleConn: response := s.processRequest(frame), the Handler returning
\* any of its results when it is called.
WorkerProcess(c) ==
    /\ workers[c].pc = "process"
    /\ \E h \in HandlerResults :
         workers' = [workers EXCEPT
            ![c].pc = "write",
            ![c].handler = IF CallsHandler(workers[c].frame) THEN h
                           ELSE NoCall,
            ![c].resp = processRequest(workers[c].frame, h)]
    /\ UNCHANGED <<srv, serve, closer, sock>>
    /\ UNCHANGED <<clientVars, poolVars, extraVars>>

\* handleConn: conn.Write(response.Encode()) writes the response and the
\* loop goes on, or fails on the closed socket and handleConn returns.
WorkerWrite(c) ==
    /\ workers[c].pc = "write"
    /\ IF sock[c].state = "open"
       THEN /\ sock' = [sock EXCEPT ![c].writes = Append(@, workers[c].resp)]
            /\ workers' = [workers EXCEPT ![c] = [NoWorker EXCEPT !.pc = "loop"]]
       ELSE /\ workers' = [workers EXCEPT ![c] = [NoWorker EXCEPT !.pc = "exit"]]
            /\ UNCHANGED sock
    /\ UNCHANGED <<srv, serve, closer>>
    /\ UNCHANGED <<clientVars, poolVars, extraVars>>

\* handleConn, its deferred function: s.wg.Done() ...
WorkerDone(c) ==
    /\ workers[c].pc = "exit"
    /\ srv' = [srv EXCEPT !.wg = @ - 1]
    /\ workers' = [workers EXCEPT ![c].pc = "cleanup"]
    /\ UNCHANGED <<serve, closer, sock>>
    /\ UNCHANGED <<clientVars, poolVars, extraVars>>

\* ... then conn.Close() and, under s.mu, delete(s.conns, conn).
WorkerCleanup(c) ==
    /\ workers[c].pc = "cleanup"
    /\ sock' = [sock EXCEPT ![c].state = "closed"]
    /\ srv' = [srv EXCEPT !.conns = @ \ {c}]
    /\ workers' = [workers EXCEPT ![c].pc = "finished"]
    /\ UNCHANGED <<serve, closer>>
    /\ UNCHANGED <<clientVars, poolVars, extraVars>>

NextServer ==
    \/ ServeSetListener
    \/ ServeAccept
    \/ ServeAcceptClosed
    \/ ServeRegister
    \/ ServeSpawn
    \/ CloseBegin
    \/ CloseLocked
    \/ CloseWait
    \/ \E c \in 1..MaxAccepts :
        \/ PeerSends(c)
        \/ WorkerCheckClosed(c)
        \/ WorkerReadFrame(c)
        \/ WorkerReadFails(c)
        \/ WorkerProcess(c)
        \/ WorkerWrite(c)
        \/ WorkerDone(c)
        \/ WorkerCleanup(c)

SpecServer == InitServer /\ [][NextServer]_vars

\* The steps of the goroutine in Serve that wait for no peer, those of the
\* goroutine in Close after its compare-and-swap, and those of a handleConn
\* goroutine that wait for no peer: the Go scheduler runs a goroutine that
\* can run, and an Accept or a Read on a closed listener or socket returns.
ServeRuns ==
    ServeSetListener \/ ServeAcceptClosed \/ ServeRegister \/ ServeSpawn

CloseRuns == CloseLocked \/ CloseWait

WorkerRuns(c) ==
    \/ WorkerCheckClosed(c)
    \/ WorkerReadFails(c) /\ sock[c].state = "closed"
    \/ WorkerProcess(c)
    \/ WorkerWrite(c)
    \/ WorkerDone(c)
    \/ WorkerCleanup(c)

FairSpecServer ==
    /\ SpecServer
    /\ WF_vars(ServeRuns)
    /\ WF_vars(CloseRuns)
    /\ \A c \in 1..MaxAccepts : WF_vars(WorkerRuns(c))

(***************************************************************************)
(* Client, server and MemoryHandler end to end: one connected client, its  *)
(* calls made one after the other.  PDUs are their bytes.                  *)
(***************************************************************************)
\* The values of a uint16: conversions to uint16 and uint16 arithmetic are
\* modulo this.
Uint16Range == 65536

\* The mutation of PutUint16 into little-endian order.
PutUint16LittleEndian(x) == <<x % 256, x \div 256>>

\* binary.BigEndian.PutUint16
PutUint16(x) == <<x \div 256, x % 256>>

\* binary.BigEndian.Uint16 of the two bytes of b from position i, counted
\* from 1.
GetUint16(b, i) == b[i] * 256 + b[i + 1]

\* The list of registers a caller passes: its length and its first value,
\* the values going up by one.  Element i, counted from 0:
RegElem(l, i) == (l.base + i) % Uint16Range

\* The list of coils a caller passes: its length, and which are on (every
\* n-th from the first; none when every is 0).
CoilElem(l, i) == l.every > 0 /\ i % l.every = 0

\* What a builder returns.
Built(pdu) == [err |-> ApiErr(ErrNone), pdu |-> pdu]

BuildError(kind) == [err |-> ApiErr(kind), pdu |-> <<>>]

ErrInvalidQuantity == "modbus: invalid quantity"
ErrInvalidAddress == "modbus: invalid address"
\* An error of the transport's Send.
ErrTransport == "transport"

\* BuildReadCoilsPDU, BuildReadHoldingRegistersPDU: the checks and the PDU.
BuildReadPDU(fc, max, addr, qty) ==
    IF qty < 1 \/ qty > max THEN BuildError(ErrInvalidQuantity)
    ELSE IF addr + qty > 65536 THEN BuildError(ErrInvalidAddress)
    ELSE Built(<<fc>> \o PutUint16(addr) \o PutUint16(qty))

BuildReadCoilsPDU(addr, qty) ==
    BuildReadPDU(FuncReadCoils, MaxQuantityCoils, addr, qty)

BuildReadHoldingRegistersPDU(addr, qty) ==
    BuildReadPDU(FuncReadHoldingRegisters, MaxQuantityRegisters, addr, qty)

BuildWriteSingleCoilPDU(addr, value) ==
    <<FuncWriteSingleCoil>> \o PutUint16(addr)
        \o PutUint16(IF value THEN CoilOn ELSE CoilOff)

BuildWriteSingleRegisterPDU(addr, value) ==
    <<FuncWriteSingleRegister>> \o PutUint16(addr) \o PutUint16(value)

\* qty := uint16(len(values))
ListQuantity(l) == l.len % Uint16Range

\* One bit of a packed byte: coil idx of the list, when there is one.
CoilBit(l, idx, b) == IF idx < l.len /\ CoilElem(l, idx) THEN 2 ^ b ELSE 0

\* Byte j, counted from 0, of the coils packed eight to a byte.
PackedCoils(l, j) ==
    CoilBit(l, 8 * j, 0) + CoilBit(l, 8 * j + 1, 1) + CoilBit(l, 8 * j + 2, 2)
    + CoilBit(l, 8 * j + 3, 3) + CoilBit(l, 8 * j + 4, 4)
    + CoilBit(l, 8 * j + 5, 5) + CoilBit(l, 8 * j + 6, 6)
    + CoilBit(l, 8 * j + 7, 7)

\* BuildWriteMultipleCoilsPDU.  Its loop runs over all the values: a coil
\* that is on at an index past the PDU's data bytes panics (index out of
\* range).
BuildWriteMultipleCoilsPDU(addr, l) ==
    LET qty == ListQuantity(l)
        byteCount == ((qty + 7) % Uint16Range) \div 8
    IN  IF qty < 1 \/ qty > MaxQuantityCoils
        THEN BuildError(ErrInvalidQuantity)
        ELSE IF addr + qty > 65536 THEN BuildError(ErrInvalidAddress)
        ELSE IF \E i \in (8 * byteCount)..(l.len - 1) : CoilElem(l, i)
        THEN BuildError(Panic)
        ELSE Built(<<FuncWriteMultipleCoils>> \o PutUint16(addr)
                   \o PutUint16(qty) \o <<byteCount % 256>>
                   \o [j \in 1..byteCount |-> PackedCoils(l, j - 1)])

\* BuildWriteMultipleRegistersPDU.  Its loop runs over all the values: the
\* value at an index past the PDU's data bytes panics (PutUint16 on a slice
\* too short).
BuildWriteMultipleRegistersPDU(addr, l) ==
    LET qty == ListQuantity(l)
        byteCount == (qty * 2) % Uint16Range
    IN  IF qty < 1 \/ qty > MaxQuantityWriteRegisters
        THEN BuildError(ErrInvalidQuantity)
        ELSE IF addr + qty > 65536 THEN BuildError(ErrInvalidAddress)
        ELSE IF l.len > byteCount \div 2 THEN BuildError(Panic)
        ELSE Built(<<FuncWriteMultipleRegisters>> \o PutUint16(addr)
                   \o PutUint16(qty) \o <<byteCount % 256>>
                   \o [j \in 1..byteCount |->
                         PutUint16(RegElem(l, (j - 1) \div 2))[2 - (j % 2)]])

\* copy(table[addr:], values): the table with the values written from addr.
Written(t, addr, values) ==
    [a \in DOMAIN t \cup addr..(addr + Len(values) - 1) |->
        IF a >= addr /\ a < addr + Len(values) THEN values[a - addr + 1]
        ELSE t[a]]

\* What a method of the MemoryHandler does: its values or error, or its
\* panic, and the table after it.
Handled(values, t) == [outcome |-> "ok", values |-> values, table |-> t]

HandlerError(t) == [outcome |-> ErrModbus, values |-> <<>>, table |-> t]

HandlerPanic(t) == [outcome |-> "panic", values |-> <<>>, table |-> t]

\* addr+qty of the slice expression table[addr:addr+qty], in uint16.
SliceEnd(addr, qty) == (addr + qty) % Uint16Range

\* MemoryHandler.ReadHoldingRegisters and ReadCoils (zero being 0 or
\* false): the bounds check against the table's 65536 entries, then
\* copy(result, table[addr:addr+qty]), a slice expression that panics when
\* its end is below its start.
MemoryRead(t, addr, qty, zero) ==
    IF addr + qty > 65536 THEN HandlerError(t)
    ELSE IF SliceEnd(addr, qty) < addr THEN HandlerPanic(t)
    ELSE Handled([i \in 1..qty |->
                    IF i <= SliceEnd(addr, qty) - addr
                    THEN (IF addr + i - 1 \in DOMAIN t THEN t[addr + i - 1]
                          ELSE zero)
                    ELSE zero], t)

\* MemoryHandler.WriteSingleRegister, WriteSingleCoil.
MemoryWriteSingle(t, addr, value) ==
    IF addr >= 65536 THEN HandlerError(t)
    ELSE Handled(<<>>, Written(t, addr, <<value>>))

\* MemoryHandler.WriteMultipleRegisters, WriteMultipleCoils.
MemoryWriteMultiple(t, addr, values) ==
    IF addr + Len(values) > 65536 THEN HandlerError(t)
    ELSE Handled(<<>>, Written(t, addr, values))

\* What a handle method of the server gives: the response PDU, or a panic
\* (which handleConn recovers by closing the connection), the table, and
\* whether it has called the Handler.
Answer(pdu, t) == [panic |-> FALSE, pdu |-> pdu, table |-> t, called |-> FALSE]

AnswerOfHandler(pdu, t) == [Answer(pdu, t) EXCEPT !.called = TRUE]

ServerPanic(t) == [panic |-> TRUE, pdu |-> <<>>, table |-> t, called |-> TRUE]

\* The answer after the handler was called (processRequest turns its
\* ModbusError, which is IllegalDataAddress, into an exception response).
AfterHandler(fc, h, pdu) ==
    IF h.outcome = "panic" THEN ServerPanic(h.table)
    ELSE IF h.outcome = ErrModbus
    THEN AnswerOfHandler(buildException(fc, ExceptionIllegalDataAddress),
                         h.table)
    ELSE AnswerOfHandler(pdu, h.table)

\* The registers of a response or request, two bytes each.
RegisterBytes(values) ==
    [j \in 1..(2 * Len(values)) |->
        PutUint16(values[(j + 1) \div 2])[2 - (j % 2)]]

\* Bit b of byte x.
BitOf(x, b) == (x \div (2 ^ b)) % 2 = 1

\* The coils of a response, eight to a byte.
BoolBit(values, idx, b) ==
    IF idx <= Len(values) /\ values[idx] THEN 2 ^ b ELSE 0

CoilBytes(values) ==
    [j \in 1..((Len(values) + 7) \div 8) |->
        BoolBit(values, 8 * j - 7, 0) + BoolBit(values, 8 * j - 6, 1)
        + BoolBit(values, 8 * j - 5, 2) + BoolBit(values, 8 * j - 4, 3)
        + BoolBit(values, 8 * j - 3, 4) + BoolBit(values, 8 * j - 2, 5)
        + BoolBit(values, 8 * j - 1, 6) + BoolBit(values, 8 * j, 7)]

\* handleReadHoldingRegisters
handleReadHoldingRegisters(t, pdu) ==
    LET fc == FuncReadHoldingRegisters
        addr == GetUint16(pdu, 2)
        qty == GetUint16(pdu, 4)
        h == MemoryRead(t, addr, qty, 0)
    IN  IF Len(pdu) < 5
        THEN Answer(buildException(fc, ExceptionIllegalDataValue), t)
        ELSE IF qty < 1 \/ qty > MaxQuantityRegisters
        THEN Answer(buildException(fc, ExceptionIllegalDataValue), t)
        ELSE IF addr + qty > 65536
        THEN Answer(buildException(fc, ExceptionIllegalDataAddress), t)
        ELSE IF h.outcome = "ok" /\ Len(h.values) # qty
        THEN AnswerOfHandler(
                 buildException(fc, ExceptionServerDeviceFailure), t)
        ELSE AfterHandler(fc, h,
                 <<fc, (qty * 2) % 256>> \o RegisterBytes(h.values))

\* handleReadCoils
handleReadCoils(t, pdu) ==
    LET fc == FuncReadCoils
        addr == GetUint16(pdu, 2)
        qty == GetUint16(pdu, 4)
        h == MemoryRead(t, addr, qty, FALSE)
    IN  IF Len(pdu) < 5
        THEN Answer(buildException(fc, ExceptionIllegalDataValue), t)
        ELSE IF qty < 1 \/ qty > MaxQuantityCoils
        THEN Answer(buildException(fc, ExceptionIllegalDataValue), t)
        ELSE IF addr + qty > 65536
        THEN Answer(buildException(fc, ExceptionIllegalDataAddress), t)
        ELSE IF h.outcome = "ok" /\ Len(h.values) # qty
        THEN AnswerOfHandler(
                 buildException(fc, ExceptionServerDeviceFailure), t)
        ELSE AfterHandler(fc, h,
                 <<fc, ((qty + 7) \div 8) % 256>> \o CoilBytes(h.values))

\* handleWriteSingleRegister
handleWriteSingleRegister(t, pdu) ==
    IF Len(pdu) < 5
    THEN Answer(buildException(FuncWriteSingleRegister,
                               ExceptionIllegalDataValue), t)
    ELSE AfterHandler(FuncWriteSingleRegister,
             MemoryWriteSingle(t, GetUint16(pdu, 2), GetUint16(pdu, 4)),
             SubSeq(pdu, 1, 5))

\* handleReadDiscreteInputs
handleReadDiscreteInputs(t, pdu) ==
    LET fc == FuncReadDiscreteInputs
        addr == GetUint16(pdu, 2)
        qty == GetUint16(pdu, 4)
        h == MemoryRead(t, addr, qty, FALSE)
    IN  IF Len(pdu) < 5
        THEN Answer(buildException(fc, ExceptionIllegalDataValue), t)
        ELSE IF qty < 1 \/ qty > MaxQuantityDiscreteInputs
        THEN Answer(buildException(fc, ExceptionIllegalDataValue), t)
        ELSE IF addr + qty > 65536
        THEN Answer(buildException(fc, ExceptionIllegalDataAddress), t)
        ELSE IF h.outcome = "ok" /\ Len(h.values) # qty
        THEN AnswerOfHandler(
                 buildException(fc, ExceptionServerDeviceFailure), t)
        ELSE AfterHandler(fc, h,
                 <<fc, ((qty + 7) \div 8) % 256>> \o CoilBytes(h.values))

\* handleReadInputRegisters
handleReadInputRegisters(t, pdu) ==
    LET fc == FuncReadInputRegisters
        addr == GetUint16(pdu, 2)
        qty == GetUint16(pdu, 4)
        h == MemoryRead(t, addr, qty, 0)
    IN  IF Len(pdu) < 5
        THEN Answer(buildException(fc, ExceptionIllegalDataValue), t)
        ELSE IF qty < 1 \/ qty > MaxQuantityRegisters
        THEN Answer(buildException(fc, ExceptionIllegalDataValue), t)
        ELSE IF addr + qty > 65536
        THEN Answer(buildException(fc, ExceptionIllegalDataAddress), t)
        ELSE IF h.outcome = "ok" /\ Len(h.values) # qty
        THEN AnswerOfHandler(
                 buildException(fc, ExceptionServerDeviceFailure), t)
        ELSE AfterHandler(fc, h,
                 <<fc, (qty * 2) % 256>> \o RegisterBytes(h.values))

\* The mutation of handleWriteSingleCoil that takes any value other than
\* 0xFF00 for off.
handleWriteSingleCoilAnyValue(t, pdu) ==
    IF Len(pdu) < 5
    THEN Answer(buildException(FuncWriteSingleCoil,
                               ExceptionIllegalDataValue), t)
    ELSE AfterHandler(FuncWriteSingleCoil,
             MemoryWriteSingle(t, GetUint16(pdu, 2),
                               GetUint16(pdu, 4) = CoilOn),
             SubSeq(pdu, 1, 5))

\* handleWriteSingleCoil
handleWriteSingleCoil(t, pdu) ==
    LET value == GetUint16(pdu, 4) IN
    IF Len(pdu) < 5
    THEN Answer(buildException(FuncWriteSingleCoil,
                               ExceptionIllegalDataValue), t)
    ELSE IF value # CoilOn /\ value # CoilOff
    THEN Answer(buildException(FuncWriteSingleCoil,
                               ExceptionIllegalDataValue), t)
    ELSE AfterHandler(FuncWriteSingleCoil,
             MemoryWriteSingle(t, GetUint16(pdu, 2), value = CoilOn),
             SubSeq(pdu, 1, 5))

\* handleWriteMultipleRegisters
handleWriteMultipleRegisters(t, pdu) ==
    LET fc == FuncWriteMultipleRegisters
        addr == GetUint16(pdu, 2)
        qty == GetUint16(pdu, 4)
        byteCount == pdu[6]
        values == [i \in 1..qty |-> GetUint16(pdu, 5 + 2 * i)]
    IN  IF Len(pdu) < 6
        THEN Answer(buildException(fc, ExceptionIllegalDataValue), t)
        ELSE IF qty < 1 \/ qty > MaxQuantityWriteRegisters
        THEN Answer(buildException(fc, ExceptionIllegalDataValue), t)
        ELSE IF addr + qty > 65536
        THEN Answer(buildException(fc, ExceptionIllegalDataAddress), t)
        ELSE IF byteCount # (qty * 2) \/ Len(pdu) < 6 + byteCount
        THEN Answer(buildException(fc, ExceptionIllegalDataValue), t)
        ELSE AfterHandler(fc, MemoryWriteMultiple(t, addr, values),
                 <<fc>> \o PutUint16(addr) \o PutUint16(qty))

\* handleWriteMultipleCoils
handleWriteMultipleCoils(t, pdu) ==
    LET fc == FuncWriteMultipleCoils
        addr == GetUint16(pdu, 2)
        qty == GetUint16(pdu, 4)
        byteCount == pdu[6]
        values == [i \in 1..qty |->
                     BitOf(pdu[7 + (i - 1) \div 8], (i - 1) % 8)]
    IN  IF Len(pdu) < 6
        THEN Answer(buildException(fc, ExceptionIllegalDataValue), t)
        ELSE IF qty < 1 \/ qty > MaxQuantityCoils
        THEN Answer(buildException(fc, ExceptionIllegalDataValue), t)
        ELSE IF addr + qty > 65536
        THEN Answer(buildException(fc, ExceptionIllegalDataAddress), t)
        ELSE IF byteCount # (qty + 7) \div 8 \/ Len(pdu) < 6 + byteCount
        THEN Answer(buildException(fc, ExceptionIllegalDataValue), t)
        ELSE AfterHandler(fc, MemoryWriteMultiple(t, addr, values),
                 <<fc>> \o PutUint16(addr) \o PutUint16(qty))

\* The server's answer a, of a handle method on the unit's table, and the
\* MemoryHandler m with that table.
Served(m, unit, regs, a) ==
    [panic |-> a.panic, pdu |-> a.pdu, called |-> a.called,
     mem |-> IF regs THEN [m EXCEPT !.holdingRegs[unit] = a.table]
             ELSE [m EXCEPT !.coils[unit] = a.table]]

\* Server.processRequest with the MemoryHandler m, for the function codes
\* the client's calls below send: the handle method of the function code on
\* the unit's table.
ServerHandle(m, unit, pdu) ==
    LET fc == pdu[1]
        regs == fc \in {FuncReadHoldingRegisters, FuncWriteSingleRegister,
                        FuncWriteMultipleRegisters}
        t == IF regs THEN m.holdingRegs[unit] ELSE m.coils[unit]
    IN  Served(m, unit, regs,
               CASE fc = FuncReadCoils -> handleReadCoils(t, pdu)
                 [] fc = FuncReadHoldingRegisters ->
                        handleReadHoldingRegisters(t, pdu)
                 [] fc = FuncWriteSingleCoil -> handleWriteSingleCoil(t, pdu)
                 [] fc = FuncWriteSingleRegister ->
                        handleWriteSingleRegister(t, pdu)
                 [] fc = FuncWriteMultipleCoils ->
                        handleWriteMultipleCoils(t, pdu)
                 [] OTHER -> handleWriteMultipleRegisters(t, pdu))

\* ParseExceptionResponse of a PDU of two bytes or more: the ModbusError.
ExceptionOf(pdu) ==
    [kind |-> ErrModbus, fc |-> pdu[1] % 128, code |-> pdu[2]]


\* What a send gives: the error, the response PDU, and the client and the
\* server's memory after it.
Sent(err, resp, lk, m) == [err |-> err, resp |-> resp, link |-> lk, mem |-> m]

\* Client.doSend once transport.Send has written the request: the server
\* has answered (s) on the connection, or its handler panicked and
\* handleConn closed the connection, which fails the transport's Send
\* (which drops its connection).
doSendResponse(framed, pdu, s) ==
    IF s.panic
    THEN Sent(ApiErr(ErrTransport), <<>>,
              [framed EXCEPT !.sock = "closed"], s.mem)
    ELSE IF IsExceptionResponse(s.pdu)
    THEN Sent(ExceptionOf(s.pdu), <<>>, framed, s.mem)
    ELSE IF s.pdu[1] # pdu[1]
    THEN Sent(ApiErr(ErrInvalidResponse), <<>>, framed, s.mem)
    ELSE Sent(ApiErr(ErrNone), s.pdu, framed, s.mem)

\* Client.doSend: one request and its response.
doSend(lk, m, unit, pdu) ==
    LET counted == [lk EXCEPT !.RequestsTotal = @ + 1]
    IN  IF lk.state # StateConnected
        THEN Sent(ApiErr(ErrNotConnected), <<>>, lk, m)
        ELSE IF lk.sock # "open"
        THEN Sent(ApiErr(ErrTransport), <<>>, counted, m)
        ELSE doSendResponse([counted EXCEPT !.frames = @ + 1], pdu,
                            ServerHandle(m, unit, pdu))

\* Client.handleDisconnect, as far as these calls see it.
handleDisconnectLink(lk) ==
    [lk EXCEPT !.state = StateDisconnected, !.sock = "closed"]

\* Client.reconnect against the running server: Connect returns at once
\* when the state is Connected, and else dials and succeeds.
reconnectLink(lk) ==
    IF lk.state = StateConnected THEN lk
    ELSE [lk EXCEPT !.state = StateConnected, !.sock = "open"]

\* The attempts of sendWithUnit from attempt number attempt on, and what
\* follows the attempt that gave r.
RECURSIVE sendAttempts(_, _, _, _, _)
sendAttempted(lk, unit, pdu, attempt, r) ==
    IF r.err.kind = ErrNone THEN r
    ELSE IF ~lk.autoReconnect \/ ~isRetryableError(r.err.kind) THEN r
    ELSE sendAttempts(handleDisconnectLink(r.link), r.mem, unit, pdu,
                      attempt + 1)

sendAttempts(lk, m, unit, pdu, attempt) ==
    IF attempt >= (IF lk.autoReconnect THEN lk.maxRetries ELSE 1)
    THEN Sent(ApiErr(ErrMaxRetriesExceeded), <<>>, lk, m)
    ELSE sendAttempted(lk, unit, pdu, attempt,
                       doSend(IF attempt > 0 THEN reconnectLink(lk) ELSE lk,
                              m, unit, pdu))

\* Client.send, Client.sendWithUnit
sendWithUnit(lk, m, pdu) == sendAttempts(lk, m, lk.unitID, pdu, 0)

\* What a parser of a response gives.
Parsed(values) == [err |-> ApiErr(ErrNone), values |-> values]

ParseError == [err |-> ApiErr(ErrInvalidResponse), values |-> <<>>]

\* ParseRegistersResponse
ParseRegistersResponse(pdu, qty) ==
    IF Len(pdu) < 2 THEN ParseError
    ELSE IF pdu[2] # (qty * 2) % Uint16Range \/ Len(pdu) < 2 + pdu[2]
    THEN ParseError
    ELSE Parsed([i \in 1..qty |-> GetUint16(pdu, 1 + 2 * i)])

\* ParseCoilsResponse
ParseCoilsResponse(pdu, qty) ==
    IF Len(pdu) < 2 THEN ParseError
    ELSE IF pdu[2] # ((qty + 7) % Uint16Range) \div 8 \/ Len(pdu) < 2 + pdu[2]
    THEN ParseError
    ELSE Parsed([i \in 1..qty |-> BitOf(pdu[3 + (i - 1) \div 8], (i - 1) % 8)])

\* ParseWriteResponse, ParseWriteMultipleResponse: the address and the
\* value or quantity of the response against the expected ones.
ParseWriteResponse(pdu, expectedAddr, expected) ==
    IF Len(pdu) < 5 THEN ParseError
    ELSE IF GetUint16(pdu, 2) # expectedAddr \/ GetUint16(pdu, 4) # expected
    THEN ParseError
    ELSE Parsed(<<>>)

\* The call op with the arguments addr and n (a quantity, a value or a
\* list's length), that returned err and values after building pdu and
\* sending frames frames.
ApiCall(op, unit, addr, n, err, values, pdu, frames) ==
    [op |-> op, unit |-> unit, addr |-> addr, qty |-> n, err |-> err,
     values |-> values, pdu |-> pdu, sent |-> frames]

\* The parser the method op applies to the response, with the address and
\* the quantity or value it expects.
ParseResponse(op, resp, addr, expected) ==
    CASE op = "ReadHoldingRegisters" -> ParseRegistersResponse(resp, expected)
      [] op = "ReadCoils" -> ParseCoilsResponse(resp, expected)
      [] OTHER -> ParseWriteResponse(resp, addr, expected)

\* A public method of the client once its PDU is built and sent, r being
\* what the send gave and p what the parser makes of the response.
MethodSent(op, addr, n, pdu, r, p) ==
    /\ last' = IF r.err.kind # ErrNone
               THEN ApiCall(op, link.unitID, addr, n, r.err, <<>>, pdu,
                            r.link.frames - link.frames)
               ELSE ApiCall(op, link.unitID, addr, n, p.err, p.values, pdu,
                            r.link.frames - link.frames)
    /\ link' = [r.link EXCEPT !.calls = @ + 1]
    /\ mem' = r.mem

\* A public method of the client once its PDU is built and sent, r being
\* what the send gave: the response is parsed.
MethodParse(op, addr, n, expected, pdu, r) ==
    MethodSent(op, addr, n, pdu, r, ParseResponse(op, r.resp, addr, expected))

\* A public method of the client from its built PDU (b) on: when the
\* builder failed, its error is returned (its panic ends the goroutine);
\* else the PDU is sent and the response parsed.
Method(op, addr, n, expected, b) ==
    IF b.err.kind # ErrNone
    THEN /\ last' = ApiCall(op, link.unitID, addr, n, b.err, <<>>, <<>>, 0)
         /\ link' = [link EXCEPT !.calls = @ + 1,
                                 !.crashed = (b.err.kind = Panic)]
         /\ mem' = mem
    ELSE MethodParse(op, addr, n, expected, b.pdu,
                     sendWithUnit(link, mem, b.pdu))

\* The goroutine can make a call.
CanCall == ~link.crashed /\ link.calls < MaxApiCalls

\* The record of a successful write, for the properties.
WriteRecorded(regs, addr, l) ==
    wrote' = IF last'.err.kind = ErrNone
             THEN Append(wrote, [regs |-> regs, unit |-> link.unitID,
                                 addr |-> addr, list |-> l])
             ELSE wrote

ApiOthersUnchanged == UNCHANGED <<clientVars, poolVars, serverVars, fr, gen, rc>>

\* Client.SetUnitID
SetUnitID(id) ==
    /\ ~link.crashed
    /\ link' = [link EXCEPT !.unitID = id]
    /\ UNCHANGED <<mem, last, wrote>>
    /\ ApiOthersUnchanged

\* Client.ReadHoldingRegisters
ReadHoldingRegisters(addr, qty) ==
    /\ CanCall
    /\ Method("ReadHoldingRegisters", addr, qty, qty,
              BuildReadHoldingRegistersPDU(addr, qty))
    /\ UNCHANGED wrote
    /\ ApiOthersUnchanged

\* Client.ReadCoils
ReadCoils(addr, qty) ==
    /\ CanCall
    /\ Method("ReadCoils", addr, qty, qty, BuildReadCoilsPDU(addr, qty))
    /\ UNCHANGED wrote
    /\ ApiOthersUnchanged

\* Client.WriteSingleRegister
WriteSingleRegister(addr, value) ==
    /\ CanCall
    /\ Method("WriteSingleRegister", addr, value, value,
              Built(BuildWriteSingleRegisterPDU(addr, value)))
    /\ WriteRecorded(TRUE, addr, [len |-> 1, base |-> value, every |-> 0])
    /\ ApiOthersUnchanged

\* Client.WriteSingleCoil
WriteSingleCoil(addr, value) ==
    /\ CanCall
    /\ Method("WriteSingleCoil", addr, IF value THEN 1 ELSE 0,
              IF value THEN CoilOn ELSE CoilOff,
              Built(BuildWriteSingleCoilPDU(addr, value)))
    /\ WriteRecorded(FALSE, addr,
                     [len |-> 1, base |-> 0, every |-> IF value THEN 1 ELSE 0])
    /\ ApiOthersUnchanged

\* Client.WriteMultipleRegisters
WriteMultipleRegisters(addr, l) ==
    /\ CanCall
    /\ Method("WriteMultipleRegisters", addr, l.len, ListQuantity(l),
              IF l.len = 0 THEN BuildError(ErrInvalidQuantity)
              ELSE BuildWriteMultipleRegistersPDU(addr, l))
    /\ WriteRecorded(TRUE, addr, l)
    /\ ApiOthersUnchanged

\* Client.WriteMultipleCoils
WriteMultipleCoils(addr, l) ==
    /\ CanCall
    /\ Method("WriteMultipleCoils", addr, l.len, ListQuantity(l),
              IF l.len = 0 THEN BuildError(ErrInvalidQuantity)
              ELSE BuildWriteMultipleCoilsPDU(addr, l))
    /\ WriteRecorded(FALSE, addr, l)
    /\ ApiOthersUnchanged

\* The arguments of the calls.
ApiAddrs == {0, 65535}
RegisterQuantities == {0, 1, 2, MaxQuantityRegisters, MaxQuantityRegisters + 1}
CoilQuantities == {0, 1, 9, MaxQuantityCoils, MaxQuantityCoils + 1}
RegisterValues == {0, 258}
RegisterLists ==
    [len : {0, 1, 2, MaxQuantityWriteRegisters, MaxQuantityWriteRegisters + 1,
            65536, 65537},
     base : {258}, every : {0}]
CoilLists ==
    [len : {0, 1, 9, MaxQuantityCoils, MaxQuantityCoils + 1, 65536, 65537},
     base : {0}, every : {0, 3}]

InitApi ==
    /\ mem = NewMemoryHandler
    /\ \E auto \in BOOLEAN : link = NewLink(DefaultUnitID, auto)
    /\ last = NoApiCall
    /\ wrote = <<>>
    /\ fr = NoRoundTrip
    /\ gen = NewGenerator
    /\ rc = NoReconnect
    /\ ClientUnused
    /\ PoolUnused
    /\ ServerUnused

NextApi ==
    \/ \E id \in Units : SetUnitID(id)
    \/ \E addr \in ApiAddrs, qty \in RegisterQuantities :
          ReadHoldingRegisters(addr, qty)
    \/ \E addr \in ApiAddrs, qty \in CoilQuantities : ReadCoils(addr, qty)
    \/ \E addr \in ApiAddrs, value \in RegisterValues :
          WriteSingleRegister(addr, value)
    \/ \E addr \in ApiAddrs, value \in BOOLEAN : WriteSingleCoil(addr, value)
    \/ \E addr \in ApiAddrs, l \in RegisterLists :
          WriteMultipleRegisters(addr, l)
    \/ \E addr \in ApiAddrs, l \in CoilLists : WriteMultipleCoils(addr, l)

SpecApi == InitApi /\ [][NextApi]_vars

(***************************************************************************)
(* The MemoryHandler called directly by the program that owns it, and the  *)
(* server's processRequest on the request PDUs of any peer.                *)
(***************************************************************************)
\* The addresses and quantities of the direct calls: the first and the last
\* addresses, and the ranges of the largest quantities that end at the last
\* address.
HandlerAddrs ==
    {0, 1, Uint16Range - MaxQuantityCoils, Uint16Range - MaxQuantityRegisters,
     Uint16Range - 2, Uint16Range - 1}

HandlerQuantities == {0, 1, 2, MaxQuantityRegisters, MaxQuantityCoils}

\* The address the setters write.
HandlerSetAddrs == {Uint16Range - 2}

HandlerOthersUnchanged ==
    UNCHANGED <<clientVars, poolVars, serverVars, link, wrote, fr, gen, rc>>

\* What the caller of a handler method gets: nil, the *ModbusError, or the
\* panic, which ends the calling program.
HandlerErr(h) == ApiErr(IF h.outcome = "ok" THEN ErrNone ELSE h.outcome)

\* The program that calls the handler has not ended in a panic.
HandlerCanCall == last.err.kind # Panic

\* A read method of the handler has returned h.
HandlerReturned(op, unit, addr, qty, h) ==
    /\ last' = ApiCall(op, unit, addr, qty, HandlerErr(h), h.values, <<>>, 0)
    /\ mem' = mem

\* MemoryHandler.ReadCoils
MemoryReadCoils(unit, addr, qty) ==
    /\ HandlerCanCall
    /\ HandlerReturned("MemoryHandler.ReadCoils", unit, addr, qty,
                       MemoryRead(mem.coils[unit], addr, qty, FALSE))
    /\ HandlerOthersUnchanged

\* MemoryHandler.ReadDiscreteInputs
MemoryReadDiscreteInputs(unit, addr, qty) ==
    /\ HandlerCanCall
    /\ HandlerReturned("MemoryHandler.ReadDiscreteInputs", unit, addr, qty,
                       MemoryRead(mem.discreteInputs[unit], addr, qty, FALSE))
    /\ HandlerOthersUnchanged

\* MemoryHandler.ReadHoldingRegisters
MemoryReadHoldingRegisters(unit, addr, qty) ==
    /\ HandlerCanCall
    /\ HandlerReturned("MemoryHandler.ReadHoldingRegisters", unit, addr, qty,
                       MemoryRead(mem.holdingRegs[unit], addr, qty, 0))
    /\ HandlerOthersUnchanged

\* MemoryHandler.ReadInputRegisters
MemoryReadInputRegisters(unit, addr, qty) ==
    /\ HandlerCanCall
    /\ HandlerReturned("MemoryHandler.ReadInputRegisters", unit, addr, qty,
                       MemoryRead(mem.inputRegs[unit], addr, qty, 0))
    /\ HandlerOthersUnchanged

\* SetCoil, SetDiscreteInput, SetHoldingRegister, SetInputRegister: the
\* value is stored when the address is within the table.
MemorySet(t, addr, value) ==
    IF addr < 65536 THEN Written(t, addr, <<value>>) ELSE t

\* A setter of the handler has returned, the handler being m now.
HandlerSet(op, unit, addr, m) ==
    /\ mem' = m
    /\ last' = ApiCall(op, unit, addr, 1, ApiErr(ErrNone), <<>>, <<>>, 0)

SetCoil(unit, addr, value) ==
    /\ HandlerCanCall
    /\ HandlerSet("MemoryHandler.SetCoil", unit, addr,
                  [mem EXCEPT !.coils[unit] = MemorySet(@, addr, value)])
    /\ HandlerOthersUnchanged

SetDiscreteInput(unit, addr, value) ==
    /\ HandlerCanCall
    /\ HandlerSet("MemoryHandler.SetDiscreteInput", unit, addr,
                  [mem EXCEPT !.discreteInputs[unit] = MemorySet(@, addr, value)])
    /\ HandlerOthersUnchanged

SetHoldingRegister(unit, addr, value) ==
    /\ HandlerCanCall
    /\ HandlerSet("MemoryHandler.SetHoldingRegister", unit, addr,
                  [mem EXCEPT !.holdingRegs[unit] = MemorySet(@, addr, value)])
    /\ HandlerOthersUnchanged

SetInputRegister(unit, addr, value) ==
    /\ HandlerCanCall
    /\ HandlerSet("MemoryHandler.SetInputRegister", unit, addr,
                  [mem EXCEPT !.inputRegs[unit] = MemorySet(@, addr, value)])
    /\ HandlerOthersUnchanged

\* What processRequest gives when no table changes.
ServedUnchanged(m, a) ==
    [panic |-> a.panic, pdu |-> a.pdu, called |-> a.called, mem |-> m]

\* The function codes of the switch of processRequest whose handle methods
\* read or write the tables of a Handler, those that ServerHandle serves
\* among them.
TableFuncs ==
    {FuncReadCoils, FuncReadDiscreteInputs, FuncReadHoldingRegisters,
     FuncReadInputRegisters, FuncWriteSingleCoil, FuncWriteSingleRegister,
     FuncWriteMultipleCoils, FuncWriteMultipleRegisters}

\* Server.processRequest with the MemoryHandler m on the PDU of a request
\* frame: the empty PDU, the switch on the function code, its default.
processRequestPDU(m, unit, pdu) ==
    IF Len(pdu) < 1
    THEN ServedUnchanged(m,
             Answer(buildException(0, ExceptionIllegalFunction), <<>>))
    ELSE IF pdu[1] = FuncReadDiscreteInputs
    THEN ServedUnchanged(m,
             handleReadDiscreteInputs(m.discreteInputs[unit], pdu))
    ELSE IF pdu[1] = FuncReadInputRegisters
    THEN ServedUnchanged(m, handleReadInputRegisters(m.inputRegs[unit], pdu))
    ELSE IF pdu[1] \in TableFuncs
    THEN ServerHandle(m, unit, pdu)
    ELSE ServedUnchanged(m,
             Answer(buildException(pdu[1], ExceptionIllegalFunction), <<>>))

\* A request served: its PDU, the response PDU, whether the Handler was
\* called and whether it panicked (handleConn then closes the connection
\* and the server goes on).
ServedRequest(unit, pdu, s) ==
    /\ last' = [op |-> "Server.processRequest", unit |-> unit, pdu |-> pdu,
                resp |-> s.pdu, called |-> s.called, panic |-> s.panic,
                err |-> ApiErr(ErrNone)]
    /\ mem' = s.mem
    /\ link' = [link EXCEPT !.calls = @ + 1]

\* A peer's request frame with the PDU pdu for the unit is processed.
ServeRequest(unit, pdu) ==
    /\ link.calls < MaxServedRequests
    /\ ServedRequest(unit, pdu, processRequestPDU(mem, unit, pdu))
    /\ UNCHANGED <<clientVars, poolVars, serverVars, wrote, fr, gen, rc>>

\* n bytes of request data.
RequestData(n) == [i \in 1..n |-> 1]

\* The request PDUs of the peers: reads and writes at the first and the last
\* addresses with quantities at, within and beyond the limits, declared
\* byte counts that agree with the quantity or not, data as long as
\* declared or shorter, coil values that are 0x0000, 0xFF00 or neither,
\* truncated requests, the empty PDU and function codes of no case.
ReadRequestPDUs ==
    {<<fc>> \o PutUint16(addr) \o PutUint16(qty) :
       fc \in {FuncReadCoils, FuncReadDiscreteInputs,
               FuncReadHoldingRegisters, FuncReadInputRegisters},
       addr \in {0, Uint16Range - MaxQuantityRegisters, Uint16Range - 1},
       qty \in {0, 1, MaxQuantityRegisters, MaxQuantityRegisters + 1,
                MaxQuantityCoils, MaxQuantityCoils + 1}}

WriteSingleRequestPDUs ==
    {<<fc>> \o PutUint16(addr) \o PutUint16(value) :
       fc \in {FuncWriteSingleCoil, FuncWriteSingleRegister},
       addr \in {0, Uint16Range - 1},
       value \in {CoilOff, CoilOn, 1, Uint16Range - 1}}

WriteMultipleRequestPDUs ==
    {<<FuncWriteMultipleRegisters>> \o PutUint16(addr) \o PutUint16(qty)
       \o <<bc>> \o RequestData(n) :
       addr \in {0, Uint16Range - 1},
       qty \in {0, 1, MaxQuantityWriteRegisters,
                MaxQuantityWriteRegisters + 1},
       bc \in {2, 3, 2 * MaxQuantityWriteRegisters},
       n \in {1, 2, 2 * MaxQuantityWriteRegisters}}
    \cup
    {<<FuncWriteMultipleCoils>> \o PutUint16(addr) \o PutUint16(qty)
       \o <<bc>> \o RequestData(n) :
       addr \in {0, Uint16Range - 1},
       qty \in {0, 1, 9, MaxQuantityCoils, MaxQuantityCoils + 1},
       bc \in {1, 2, MaxQuantityCoils \div 8},
       n \in {1, 2, MaxQuantityCoils \div 8}}

RequestPDUs ==
    ReadRequestPDUs \cup WriteSingleRequestPDUs \cup WriteMultipleRequestPDUs
    \cup {<<fc>> : fc \in TableFuncs} \cup {<<fc, 0, 0, 0>> : fc \in TableFuncs}
    \cup {<<FuncWriteMultipleCoils, 0, 0, 0, 1>>,
          <<FuncWriteMultipleRegisters, 0, 0, 0, 1>>,
          <<>>, <<65, 0, 0, 0, 1>>, <<FuncReadCoils + 128, 0, 0, 0, 1>>}

InitHandler ==
    /\ ConnectedClient
    /\ fr = NoRoundTrip
    /\ gen = NewGenerator
    /\ rc = NoReconnect
    /\ ClientUnused
    /\ PoolUnused
    /\ ServerUnused

NextHandler ==
    \/ \E unit \in Units, addr \in HandlerAddrs, qty \in HandlerQuantities :
          \/ MemoryReadCoils(unit, addr, qty)
          \/ MemoryReadDiscreteInputs(unit, addr, qty)
          \/ MemoryReadHoldingRegisters(unit, addr, qty)
          \/ MemoryReadInputRegisters(unit, addr, qty)
    \/ \E addr \in HandlerSetAddrs :
          \/ SetCoil(DefaultUnitID, addr, TRUE)
          \/ SetDiscreteInput(DefaultUnitID, addr, TRUE)
          \/ SetHoldingRegister(DefaultUnitID, addr, 258)
          \/ SetInputRegister(DefaultUnitID, addr, 258)

SpecHandler == InitHandler /\ [][NextHandler]_vars

\* A server with a new MemoryHandler and the requests it processes.
InitRequests ==
    /\ ConnectedClient
    /\ fr = NoRoundTrip
    /\ gen = NewGenerator
    /\ rc = NoReconnect
    /\ ClientUnused
    /\ PoolUnused
    /\ ServerUnused

NextRequests == \E unit \in Units, pdu \in RequestPDUs : ServeRequest(unit, pdu)

SpecRequests == InitRequests /\ [][NextRequests]_vars

(***************************************************************************)
(* Frame.Encode and Frame.Decode (protocol.go), on the bytes.              *)
(***************************************************************************)
\* MBAPHeader.Encode
MBAPHeaderEncode(h) ==
    PutUint16(h.tx) \o PutUint16(h.protocol) \o PutUint16(h.length)
        \o <<h.unit>>

\* MBAPHeader.Decode of seven bytes or more.
MBAPHeaderDecode(data) ==
    [tx |-> GetUint16(data, 1), protocol |-> GetUint16(data, 3),
     length |-> GetUint16(data, 5), unit |-> data[7]]

\* Frame.Encode: Length is set to uint16(len(PDU) + 1).
Encode(f) ==
    MBAPHeaderEncode([tx |-> f.tx, protocol |-> f.protocol,
                      length |-> (Len(f.pdu) + 1) % Uint16Range,
                      unit |-> f.unit])
        \o f.pdu

\* Frame.Decode: the error, the frame and its Length field.
Decode(data) ==
    LET h == MBAPHeaderDecode(data)
        pduLen == h.length - 1
    IN  IF Len(data) < MBAPHeaderSize
        THEN [err |-> ErrInvalidFrame, frame |-> NoFrame, length |-> 0]
        ELSE IF pduLen < 0 \/ Len(data) < MBAPHeaderSize + pduLen
        THEN [err |-> ErrInvalidFrame,
              frame |-> [tx |-> h.tx, protocol |-> h.protocol,
                         unit |-> h.unit, pdu |-> <<>>],
              length |-> h.length]
        ELSE [err |-> ErrNone,
              frame |-> [tx |-> h.tx, protocol |-> h.protocol,
                         unit |-> h.unit,
                         pdu |-> SubSeq(data, MBAPHeaderSize + 1,
                                        MBAPHeaderSize + pduLen)],
              length |-> h.length]

\* The largest PDU of a valid frame.
MaxPDUSize == 253

\* A PDU of n bytes.
PDUOfLen(n) == [i \in 1..n |-> (i * 7) % 256]

\* The frames encoded: transaction IDs and unit IDs at their ends and with
\* unequal bytes, protocol ID 0 and another, PDUs of no byte up to one byte
\* more than the largest.
CodecFrames ==
    [tx : {0, 1, 255, 256, 258, 65535}, protocol : {ProtocolID, 1},
     unit : {0, 1, 255},
     pdu : {PDUOfLen(n) : n \in {0, 1, 2, MaxPDUSize, MaxPDUSize + 1}}]

CodecOthersUnchanged ==
    UNCHANGED <<clientVars, poolVars, serverVars, apiVars, gen, rc>>

\* f.Encode() of a frame.
EncodeFrame(f) ==
    /\ fr.bytes = <<>>
    /\ fr' = [fr EXCEPT !.frame = f, !.bytes = Encode(f)]
    /\ CodecOthersUnchanged

\* Decode of the bytes into a new Frame.
DecodeFrame ==
    /\ fr.bytes # <<>>
    /\ fr.err = "none"
    /\ fr' = [fr EXCEPT !.err = Decode(fr.bytes).err,
                        !.decoded = Decode(fr.bytes).frame,
                        !.length = Decode(fr.bytes).length]
    /\ CodecOthersUnchanged

InitCodec ==
    /\ fr = NoRoundTrip
    /\ gen = NewGenerator
    /\ rc = NoReconnect
    /\ ConnectedClient
    /\ ClientUnused
    /\ PoolUnused
    /\ ServerUnused

NextCodec ==
    \/ \E f \in CodecFrames : EncodeFrame(f)
    \/ DecodeFrame

SpecCodec == InitCodec /\ [][NextCodec]_vars

(***************************************************************************)
(* The three decoders of a received frame: Frame.Decode on a buffer,       *)
(* ReadFrame on a stream (protocol.go) and the response reader of          *)
(* TCPTransport.Send (tcp.go), on the bytes.                               *)
(***************************************************************************)
ErrEOF == "io.EOF"
ErrUnexpectedEOF == "io.ErrUnexpectedEOF"

\* What a decoder returns: the error, the frame and its Length field.
Decoded(err, h, pdu) ==
    [err |-> err,
     frame |-> [tx |-> h.tx, protocol |-> h.protocol, unit |-> h.unit,
                pdu |-> pdu],
     length |-> h.length]

NotDecoded(err) == [err |-> err, frame |-> NoFrame, length |-> 0]

\* io.ReadFull of n bytes from a stream that holds have bytes and then
\* ends: the error, or nil.
ReadFull(have, n) ==
    IF have >= n THEN ErrNone
    ELSE IF have = 0 THEN ErrEOF
    ELSE ErrUnexpectedEOF

\* ReadFrame(r) on a stream that delivers data and then ends.
ReadFrame(data) ==
    LET h == MBAPHeaderDecode(data)
        pduLen == h.length - 1
        rest == Len(data) - MBAPHeaderSize
    IN  IF ReadFull(Len(data), MBAPHeaderSize) # ErrNone
        THEN NotDecoded(ReadFull(Len(data), MBAPHeaderSize))
        ELSE IF h.protocol # ProtocolID
        THEN NotDecoded(ErrInvalidFrame)
        ELSE IF pduLen < 0 \/ pduLen > 253
        THEN NotDecoded(ErrInvalidFrame)
        ELSE IF ReadFull(rest, pduLen) # ErrNone
        THEN NotDecoded(ReadFull(rest, pduLen))
        ELSE Decoded(ErrNone, h,
                     SubSeq(data, MBAPHeaderSize + 1,
                            MBAPHeaderSize + pduLen))

\* readFullLocked of n bytes from a connection that holds have bytes and
\* is then closed by the peer: conn.Read returns io.EOF before the buffer
\* is full.
readFullLocked(have, n) == IF have >= n THEN ErrNone ELSE ErrEOF

\* TCPTransport.Send after the request is written, on a connection that
\* delivers data and is then closed by the peer: the header, the checks of
\* protocol ID and Length, the PDU; then Frame.Decode of the bytes
\* returned, as doSend does.
TCPTransportSendRead(data) ==
    LET protocolID == GetUint16(data, 3)
        length == GetUint16(data, 5)
        pduLen == length - 1
        rest == Len(data) - MBAPHeaderSize
    IN  IF readFullLocked(Len(data), MBAPHeaderSize) # ErrNone
        THEN NotDecoded(ErrEOF)
        ELSE IF protocolID # 0
        THEN NotDecoded(ErrBadHeader)
        ELSE IF length < 1 \/ length > 254
        THEN NotDecoded(ErrBadHeader)
        ELSE IF pduLen > 0 /\ readFullLocked(rest, pduLen) # ErrNone
        THEN NotDecoded(ErrEOF)
        ELSE Decode(SubSeq(data, 1, MBAPHeaderSize + pduLen))

\* The largest value of the Length field the decoders are given a full
\* frame for.
MaxDeclaredLength == 256

\* The bytes received: headers with protocol ID 0 and others, Length from 0
\* to beyond the largest valid one and 65535, followed by as many PDU bytes
\* as declared, fewer or more; and streams that end within the header.
ReceivedHeaders ==
    [tx : {258}, protocol : {ProtocolID, 1, 256},
     length : {0, 1, 2, 3, MaxPDUSize, MaxPDUSize + 1, MaxPDUSize + 2,
               MaxDeclaredLength, 65535},
     unit : {DefaultUnitID}]

ReceivedBytes ==
    {MBAPHeaderEncode(h) \o PDUOfLen(n) :
        h \in ReceivedHeaders,
        n \in {0, 1, 2, MaxPDUSize - 1, MaxPDUSize, MaxPDUSize + 1,
               MaxDeclaredLength - 1}}
    \cup {<<0>>, <<1, 2, 0, 0, 0, 2>>}

\* The bytes arrive.
Receive(data) ==
    /\ fr.bytes = <<>>
    /\ fr' = [fr EXCEPT !.bytes = data]
    /\ CodecOthersUnchanged

DecoderReturned(op, d) ==
    fr' = [fr EXCEPT !.op = op, !.err = d.err, !.decoded = d.frame,
                     !.length = d.length]

\* f.Decode(data) of the bytes, into a new Frame.
FrameDecodeBytes ==
    /\ fr.bytes # <<>>
    /\ fr.op = "none"
    /\ DecoderReturned("Frame.Decode", Decode(fr.bytes))
    /\ CodecOthersUnchanged

\* ReadFrame(r) of a stream of the bytes.
ReadFrameStream ==
    /\ fr.bytes # <<>>
    /\ fr.op = "none"
    /\ DecoderReturned("ReadFrame", ReadFrame(fr.bytes))
    /\ CodecOthersUnchanged

\* TCPTransport.Send reads the bytes as the response.
TransportReadResponse ==
    /\ fr.bytes # <<>>
    /\ fr.op = "none"
    /\ DecoderReturned("TCPTransport.Send", TCPTransportSendRead(fr.bytes))
    /\ CodecOthersUnchanged

InitDecoders ==
    /\ fr = NoRoundTrip
    /\ gen = NewGenerator
    /\ rc = NoReconnect
    /\ ConnectedClient
    /\ ClientUnused
    /\ PoolUnused
    /\ ServerUnused

NextDecoders ==
    \/ \E data \in ReceivedBytes : Receive(data)
    \/ FrameDecodeBytes
    \/ ReadFrameStream
    \/ TransportReadResponse

SpecDecoders == InitDecoders /\ [][NextDecoders]_vars

(***************************************************************************)
(* TransactionIDGenerator (protocol.go), called by two goroutines.         *)
(***************************************************************************)
\* The mutation of the increment into one that skips 0 when it wraps.
IncrementedSkippingZero(half) == IF half = Uint16Range - 1 THEN 1 ELSE half + 1

\* A 16-bit half of the counter, incremented.
Incremented(half) == (half + 1) % Uint16Range

\* atomic.AddUint32(&g.counter, 1): the halves of the counter after it.
AddUint32(g) ==
    [g EXCEPT !.lo = Incremented(g.lo),
              !.hi = IF g.lo = Uint16Range - 1 THEN (g.hi + 1) % Uint16Range
                     ELSE g.hi]

\* uint16(x) of the uint32 x: its low half.
Uint16Of(g) == g.lo

\* The calls after which the second goroutine may call.
ConcurrentCallTimes == {0, 1, 2, Uint16Range - 1, Uint16Range}

\* TransactionIDGenerator.Next, called by goroutine p.
GeneratorNext(p) ==
    /\ gen.calls < MaxGeneratorCalls
    /\ p = "b" => gen.calls \in ConcurrentCallTimes
    /\ gen' = [AddUint32(gen) EXCEPT !.calls = gen.calls + 1,
                                     !.ret[p] = Uint16Of(AddUint32(gen)),
                                     !.at[p] = gen.calls + 1]
    /\ UNCHANGED <<clientVars, poolVars, serverVars, apiVars, fr, rc>>

InitGenerator ==
    /\ gen = NewGenerator
    /\ rc = NoReconnect
    /\ fr = NoRoundTrip
    /\ ConnectedClient
    /\ ClientUnused
    /\ PoolUnused
    /\ ServerUnused

NextGenerator == \E p \in Procs : GeneratorNext(p)

SpecGenerator == InitGenerator /\ [][NextGenerator]_vars

(***************************************************************************)
(* Client.reconnect (client.go), one call of it: the loop of attempts and  *)
(* backoff waits, with the context of the caller and Client.Close.         *)
(* Durations are in seconds.                                               *)
(***************************************************************************)
\* The attempts that fail while the context is live and the client open.
MaxFailedAttempts == 5

\* WithReconnectBackoff and WithMaxReconnectTime: any duration each; 1 s and
\* 30 s are the defaults.
ReconnectBackoffs == {0, 1, 3, 40}
MaxReconnectTimes == {1, 4, 30}

\* math.Min of two durations.
MathMin(x, y) == IF x < y THEN x ELSE y

\* reconnect is entered: backoff := c.opts.reconnectBackoff.
NewReconnect(b, m) ==
    [NoReconnect EXCEPT !.pc = "head", !.reconnectBackoff = b,
                        !.maxReconnectTime = m, !.backoff = b]

\* The mutation of DoneCases into selects without the two cases.
DoneCasesNone(r) == {}

\* What the cases <-ctx.Done() and <-c.closeCh of a select return, of those
\* that are ready.
DoneCases(r) ==
    (IF r.ctx = "cancelled" THEN {ErrCanceled}
     ELSE IF r.ctx = "deadline" THEN {ErrDeadlineExceeded} ELSE {})
    \cup (IF r.closed THEN {ErrConnectionClosed} ELSE {})

ReconnectOthersUnchanged ==
    UNCHANGED <<clientVars, poolVars, serverVars, apiVars, fr, gen>>

\* reconnect returns e.
ReconnectReturn(r, e) == [r EXCEPT !.pc = "ret", !.ret = e]

\* The select at the head of the loop: a ready case returns, the default
\* case goes on to Connect when none is ready.
ReconnectLoopHead ==
    /\ rc.pc = "head"
    /\ IF DoneCases(rc) # {}
       THEN \E e \in DoneCases(rc) : rc' = ReconnectReturn(rc, e)
       ELSE rc' = [rc EXCEPT !.pc = "connect"]
    /\ ReconnectOthersUnchanged

\* c.Connect(ctx) returns nil: reconnect returns nil.  The client is not
\* closed and the dial succeeded under a live context.
ReconnectLoopConnected ==
    /\ rc.pc = "connect"
    /\ ~rc.closed
    /\ rc.ctx = "live"
    /\ rc' = ReconnectReturn(rc, ErrNone)
    /\ ReconnectOthersUnchanged

\* c.Connect(ctx) returns an error: ErrConnectionClosed of a closed client,
\* or the error of the dial, which a done context always makes fail.
ReconnectLoopConnectFailed ==
    /\ rc.pc = "connect"
    /\ \/ rc.failed < MaxFailedAttempts
       \/ rc.failed = MaxFailedAttempts /\ (rc.ctx # "live" \/ rc.closed)
    /\ rc' = [rc EXCEPT !.pc = "wait", !.failed = @ + 1]
    /\ ReconnectOthersUnchanged

\* The backoff select: a ready case returns; time.After(backoff) fires, the
\* wait is over and backoff = min(backoff*2, maxReconnectTime).
ReconnectLoopWait ==
    /\ rc.pc = "wait"
    /\ \/ \E e \in DoneCases(rc) : rc' = ReconnectReturn(rc, e)
       \/ rc' = [rc EXCEPT !.pc = "head",
                           !.waits = Append(@, rc.backoff),
                           !.backoff = MathMin(rc.backoff * 2,
                                               rc.maxReconnectTime)]
    /\ ReconnectOthersUnchanged

\* The context of the caller is cancelled or its deadline passes, while the
\* loop runs.
ReconnectCtxDone ==
    /\ rc.pc \in {"head", "connect", "wait"}
    /\ rc.ctx = "live"
    /\ \E k \in {"cancelled", "deadline"} :
          rc' = [rc EXCEPT !.ctx = k,
                           !.doneAt = IF rc.doneAt = "none" THEN rc.pc ELSE @]
    /\ ReconnectOthersUnchanged

\* Client.Close while the loop runs: closed = true, close(closeCh).
ReconnectClientClose ==
    /\ rc.pc \in {"head", "connect", "wait"}
    /\ ~rc.closed
    /\ rc' = [rc EXCEPT !.closed = TRUE,
                        !.doneAt = IF rc.doneAt = "none" THEN rc.pc ELSE @]
    /\ ReconnectOthersUnchanged

InitReconnect ==
    /\ rc \in {NewReconnect(b, m) :
                  b \in ReconnectBackoffs, m \in MaxReconnectTimes}
    /\ fr = NoRoundTrip
    /\ gen = NewGenerator
    /\ ConnectedClient
    /\ ClientUnused
    /\ PoolUnused
    /\ ServerUnused

ReconnectRuns ==
    \/ ReconnectLoopHead
    \/ ReconnectLoopConnected
    \/ ReconnectLoopConnectFailed
    \/ ReconnectLoopWait

NextReconnect ==
    \/ ReconnectLoopHead
    \/ ReconnectLoopConnected
    \/ ReconnectLoopConnectFailed
    \/ ReconnectLoopWait
    \/ ReconnectCtxDone
    \/ ReconnectClientClose

SpecReconnect == InitReconnect /\ [][NextReconnect]_vars

\* The loop is a running goroutine: it takes its next step.
FairSpecReconnect == SpecReconnect /\ WF_vars(ReconnectRuns)

(***************************************************************************)
(* Properties of the pool model.                                           *)
(***************************************************************************)
\* The clients the pool manages: checked out (held by a caller), or idle in
\* p.conns, in the hands of the health sweep or on their way to a woken Get.
ManagedClients ==
    UNION {callers[p].held : p \in Procs}
    \cup {pool.conns[i].c : i \in 1..Len(pool.conns)}
    \cup {hc.checked[i].c : i \in 1..Len(hc.checked)}
    \cup {callers[p].entry.c : p \in {q \in Procs : callers[q].entry # NoEntry}}

\* The callers of Get that are in createAndConnect.
Creating == {p \in Procs : callers[p].pc = "g_create"}

\* C1 (as claimed): the clients of the pool that are checked out, idle or
\* being created are never more than size.
C1_LiveClientsBounded ==
    Cardinality(ManagedClients) + Cardinality(Creating) <= pool.size

\* C10 (as claimed): a Get that started when the pool was closed, or that
\* had found the pool exhausted and was at its wait when Close ran, returns
\* ErrPoolClosed and no client (or, its own context being done, the
\* context's error).
C10_ClosedPoolRefuses ==
    \A p \in Procs :
        (callers[p].op = "get" /\ callers[p].ret # "none"
         /\ (callers[p].startedClosed \/ callers[p].atClose))
        => /\ callers[p].got = 0
           /\ \/ callers[p].ret = ErrPoolClosed
              \/ callers[p].ret = PoolCtxErr /\ callers[p].ctx = "done"

\* C11: the pool's created counter never exceeds size, whatever Get, Put,
\* Discard, the health sweep and Close do and however they interleave.
C11_CreatedAtMostSize == pool.created <= pool.size

\* C11 witness: in a pool of size 2 created has reached size, and a Get that
\* found no slot is waiting, while the health sweep is at work.
C11_Witness ==
    /\ pool.size = 2 /\ pool.created = pool.size
    /\ \E p \in Procs : callers[p].op = "get" /\ callers[p].pc = "g_parked"
    /\ hc.sweeps > 0

\* The clients that are idle: in p.conns, in the hands of the health sweep,
\* or on their way to a woken Get.
IdleClients ==
    {pool.conns[i].c : i \in 1..Len(pool.conns)}
    \cup {hc.checked[i].c : i \in 1..Len(hc.checked)}
    \cup {callers[p].entry.c : p \in {q \in Procs : callers[q].entry # NoEntry}}

\* C12: callers giving back each client at most once per Get, no two callers
\* hold the same client, no client is idle and checked out at once, and no
\* client is idle twice (twice in the queue, or in the queue and in the
\* hands of the health sweep or of a woken Get).
C12_ExclusiveLoan ==
    /\ \A p, q \in Procs : p # q => callers[p].held \cap callers[q].held = {}
    /\ IdleClients \cap UNION {callers[p].held : p \in Procs} = {}
    /\ Cardinality(IdleClients)
         = Len(pool.conns) + Len(hc.checked)
           + Cardinality({q \in Procs : callers[q].entry # NoEntry})

\* C12 witness: a caller holds a client it got from the idle queue (a hit)
\* while the health sweep has drained another client that it will put back.
C12_Witness ==
    /\ pmetrics.Hits > 0
    /\ \E p \in Procs : callers[p].held # {} /\ callers[p].got \in callers[p].held
    /\ Len(hc.checked) > 0

\* The clients that are checked out.
CheckedOut == UNION {callers[p].held : p \in Procs}

\* C13 (as claimed): a Get whose context is done returns, size clients being
\* checked out and the pool open, with the context's error, Timeouts
\* incremented by one, created and the idle queue unchanged.
C13_ExhaustedGetTimesOut ==
    [][\A p \in Procs :
         (/\ callers[p].op = "get" /\ callers[p].pc \notin {"idle", "dead"}
          /\ callers'[p].pc = "idle"
          /\ callers[p].ctx = "done"
          /\ Cardinality(CheckedOut) = pool.size /\ ~pool.closed)
         => /\ callers'[p].ret = PoolCtxErr
            /\ pmetrics'.Timeouts = pmetrics.Timeouts + 1
            /\ pool'.created = pool.created
            /\ pool'.conns = pool.conns]_vars

\* The step is the first select of p's Get (and not the panic of another
\* goroutine, which ends p too).
PollStep(p) ==
    callers[p].pc = "g_poll" /\ callers'[p].pc \notin {"g_poll", "dead"}

\* p's Get returns in this step the client at the head of the idle queue,
\* counting a hit and creating nothing.
ReturnsHead(p) ==
    /\ callers'[p].pc = "idle"
    /\ callers'[p].ret = ClientReturned
    /\ callers'[p].got = Head(pool.conns).c
    /\ callers'[p].got \in callers'[p].held
    /\ pmetrics'.Hits = pmetrics.Hits + 1
    /\ pool'.made = pool.made /\ pool'.created = pool.created

\* C14 (as claimed): a Get that finds in the idle queue a client that Put
\* has returned there returns that client, increments Hits and creates no
\* client.
C14_PutThenGetHits_AsClaimed ==
    [][\A p \in Procs :
         (PollStep(p) /\ Len(pool.conns) > 0) => ReturnsHead(p)]_vars

\* C14 (amended): a Get that finds in the idle queue a client that Put has
\* returned there, not idle for longer than max_idle_time, returns that
\* client, increments Hits and creates no client.
C14_PutThenGetHits ==
    [][\A p \in Procs :
         (PollStep(p) /\ Len(pool.conns) > 0
          /\ (pool.maxIdle => ~Head(pool.conns).old))
         => ReturnsHead(p)]_vars

\* C14 witness: the one client the pool has ever made was returned with Put
\* and a later Get has handed it out again, as a hit.
C14_Witness ==
    /\ pool.made = 1 /\ pmetrics.Hits = 1 /\ ~pool.closed
    /\ \E p \in Procs :
         /\ callers[p].op = "get" /\ callers[p].pc = "idle"
         /\ callers[p].got = 1 /\ callers[p].held = {1}

\* How many idle entries hold the PooledClient's client.
TimesEnqueued ==
    Cardinality({i \in 1..Len(pool.conns) : pool.conns[i].c = PooledClientID})

\* C15: whatever Close and Discard calls are made on one PooledClient, in
\* sequence or concurrently, one of them at most takes effect: Put is
\* called once or created is decremented by ForceClose once, never both;
\* the client is never enqueued twice; created, 1 at first, is decremented
\* once at most; the call that took effect is the one that set returned;
\* and once the calls have returned the client is either idle in the pool,
\* once, or closed with created decremented.
C15_CloseDiscardOnce ==
    /\ pooled.puts + pooled.decrements = (IF pooled.returned THEN 1 ELSE 0)
    /\ TimesEnqueued <= 1
    /\ TimesEnqueued = 1 => (pooled.puts = 1 /\ pool.created = 1)
    /\ pool.created \in {0, 1}
    /\ pooled.decrements = 1 => pool.created = 0
    /\ (pooled.returned /\ \A p \in Procs : callers[p].pc = "idle")
       => \/ TimesEnqueued = 1 /\ clients[PooledClientID] = "connected"
          \/ /\ TimesEnqueued = 0 /\ pool.created = 0
             /\ clients[PooledClientID] = "closed"

\* C15 witness: three calls of Close and Discard have returned, a first one
\* that took effect and two that were no-ops.
C15_Witness ==
    /\ pooled.calls = MaxPooledCalls
    /\ pooled.returned
    /\ \A p \in Procs : callers[p].pc = "idle"
    /\ \E p, q \in Procs : /\ callers[p].op = "pooled.Close"
                           /\ callers[q].op = "pooled.ForceClose"

\* The handleConn goroutines that have been started and have not finished.
Serving == {c \in 1..MaxAccepts : workers[c].pc \notin {"none", "finished"}}

\* C16: the registered connections, and the connections being served, are
\* never more than max_conns, and a socket that was accepted with max_conns
\* connections registered is closed, never registered, and no request sent
\* on it is read.
C16_MaxConnsRespected ==
    /\ Cardinality(srv.conns) <= srv.maxConns
    /\ Cardinality(Serving) <= srv.maxConns
    /\ \A c \in 1..MaxAccepts :
         sock[c].rejected
         => /\ sock[c].state = "closed"
            /\ c \notin srv.conns
            /\ workers[c].pc = "none"
            /\ sock[c].reads = <<>> /\ sock[c].writes = <<>>

\* C16 witness: with max_conns 2 and two connections registered and served,
\* a third socket, on which its peer has sent a request, has been rejected.
C16_Witness ==
    /\ srv.maxConns = 2
    /\ Cardinality(srv.conns) = 2 /\ Cardinality(Serving) = 2
    /\ \E c \in 1..MaxAccepts : sock[c].rejected /\ Len(sock[c].inbox) > 0

\* C17: when Close has returned no connection is registered
\* (ActiveConnections() is 0), every handleConn goroutine has finished its
\* cleanup, and Serve is not about to register a socket or start a
\* goroutine for it.
C17_CloseLeavesNothing ==
    closer.pc = "returned"
    => /\ srv.conns = {}
       /\ Serving = {}
       /\ serve.pc \notin {"register", "spawn"}

\* C18: once Close has been called, by its caller or by the context watcher,
\* Serve eventually returns, whether Close runs before or after Serve has
\* stored the listener.
C18_ServeReturnsAfterClose == srv.closed ~> (serve.pc = "returned")

\* Response w answers request r: same transaction ID and unit ID, protocol
\* ID 0.
Echoes(w, r) == w.tx = r.tx /\ w.unit = r.unit /\ w.protocol = 0

\* On every connection the responses written answer, one each and in order,
\* the requests read, the request being processed excepted.
AnsweredInOrder(c) ==
    /\ Len(sock[c].writes) <= Len(sock[c].reads)
    /\ Len(sock[c].reads) <= Len(sock[c].writes) + 1
    /\ \A i \in 1..Len(sock[c].writes) :
         Echoes(sock[c].writes[i], sock[c].reads[i])
    /\ workers[c].pc \in {"loop", "read"}
       => Len(sock[c].reads) = Len(sock[c].writes)
    /\ workers[c].pc \in {"process", "write"}
       => Len(sock[c].reads) = Len(sock[c].writes) + 1

RequestFC(c) == workers[c].frame.pdu[1]

Returns(p) == req[p].pc # "ret" /\ req'[p].pc = "ret"

\* C2: on a client shared by concurrent callers at most one request/response
\* transaction is on the wire at a time: no second request is written before
\* the previous response has been read or that transaction has failed.
C2_OneTransactionOnWire == Cardinality(net.wire) <= 1

\* C2 witness: one caller's request is on the wire while another caller is
\* at the transport lock with its own request.
C2_Witness ==
    \E p, q \in Procs : p # q /\ p \in net.wire /\ req[q].pc = "ts_lock"

\* C3 (as claimed): once Close has returned, the client is never Connected
\* and its transport holds no socket.
C3_CloseIsTerminal ==
    client.closeReturned =>
        (client.state # StateConnected /\ transport.conn = 0)

\* C4 (as claimed): when a request returns after a transport I/O error, the
\* socket is closed and the state is Disconnected, auto_reconnect on or off.
C4_IOErrorDisconnects ==
    [][\A p \in Procs :
         (Returns(p) /\ req'[p].op = "request" /\ req'[p].lastIO
          /\ req'[p].ret \in TransportIOErrors \cup {ErrMaxRetriesExceeded})
         => (client'.state = StateDisconnected /\ transport'.conn = 0)]_vars

\* C5 (as claimed): a request that saw its context cancelled or expired, in
\* the send or in the reconnect wait, returns the context's error.
C5_ContextErrorSurfaces ==
    \A p \in Procs :
        (req[p].pc = "ret" /\ req[p].op = "request" /\ req[p].ctxSeen)
        => req[p].ret \in {ErrCanceled, ErrDeadlineExceeded}

\* C6 (as claimed): a request issued after Close has returned gets
\* ConnectionClosed and sends nothing.
C6_ClosedClientRefuses ==
    \A p \in Procs :
        (req[p].pc = "ret" /\ req[p].op = "request" /\ req[p].afterClose)
        => (req[p].ret = ErrConnectionClosed /\ req[p].sends = 0)

\* C7: when the peer answers a request with an exception response, the
\* request returns in that very step (it is not sent again) with the
\* ModbusError, and the step changes neither the client's state nor its
\* socket and calls no disconnect handler, whatever auto_reconnect and
\* max_retries are.  (For an exception PDU without its exception code the
\* returned value is the nil *ModbusError.)
C7_ExceptionNotRetried ==
    [][\A p \in Procs :
         (req'[p].gotExc # "none" /\ req[p].gotExc = "none")
         => /\ req'[p].pc = "ret"
            /\ req'[p].ret = IF req'[p].gotExc = "exception" THEN ErrModbus
                                                             ELSE ErrModbusNil
            /\ req'[p].sends = req[p].sends
            /\ client' = client
            /\ transport'.conn = transport.conn
            /\ metrics'.ActiveConns = metrics.ActiveConns
            /\ metrics'.onDisconnect = metrics.onDisconnect]_vars

\* C7 witness: an exception response has been returned as ModbusError to the
\* caller of a client with auto_reconnect on and more than one attempt
\* allowed, the request sent once and the client still Connected.
C7_Witness ==
    \E p \in Procs :
        /\ req[p].pc = "ret" /\ req[p].gotExc = "exception"
        /\ req[p].ret = ErrModbus
        /\ req[p].sends = 1
        /\ opts.autoReconnect /\ opts.maxRetries > 1
        /\ client.state = StateConnected

\* C8: a request calls transport.Send at most `attempts` times, attempts
\* being max_retries with auto_reconnect and 1 without; with auto_reconnect,
\* a request that returns neither a response nor a Modbus exception has used
\* all its attempts and returns MaxRetriesExceeded.
C8_AttemptsBounded ==
    \A p \in Procs :
        req[p].op = "request" =>
            /\ req[p].sends <= Attempts
            /\ (req[p].pc = "ret" /\ opts.autoReconnect
                /\ req[p].ret \notin {Success, ErrModbus, ErrModbusNil})
               => (req[p].ret = ErrMaxRetriesExceeded
                   /\ req[p].attempt = opts.maxRetries)

\* C8 witness: with auto_reconnect and max_retries = 2, a request has sent
\* twice, failed twice and returned MaxRetriesExceeded.
C8_Witness ==
    \E p \in Procs :
        /\ opts.autoReconnect /\ opts.maxRetries = 2
        /\ req[p].pc = "ret" /\ req[p].op = "request"
        /\ req[p].sends = 2 /\ req[p].ret = ErrMaxRetriesExceeded

\* C9 (as claimed): when a response frame has been read for a request, the
\* request returns its PDU as success only if the frame has the request's
\* transaction ID and unit ID, is no exception response and carries the
\* requested function code; for every other frame the attempt ends in an
\* error and RequestsErrors is incremented.
C9_SuccessOnlyIfMatching ==
    [][\A p \in Procs :
         (req[p].pc = "ts_read" /\ req'[p].got = "other")
         => /\ ~(req'[p].pc = "ret" /\ req'[p].ret = Success)
            /\ metrics'.RequestsErrors = metrics.RequestsErrors + 1]_vars

(***************************************************************************)
(* Properties of the client's calls against the server and its            *)
(* MemoryHandler.                                                         *)
(***************************************************************************)
\* This step is a call of the method op by a client that is connected.
CallsConnected(op) ==
    /\ link'.calls = link.calls + 1
    /\ last'.op = op
    /\ link.state = StateConnected
    /\ link.sock = "open"

\* C21: the call ReadHoldingRegisters(addr=65535, qty=2) of a connected
\* client against the running server returns ModbusError(fc=3,
\* exception_code=2) and is not retried (one request frame is sent), with
\* auto_reconnect on or off.
C21_ReadPastEndSurfacesException ==
    [][(CallsConnected("ReadHoldingRegisters")
        /\ last'.addr = 65535 /\ last'.qty = 2)
       => /\ last'.err = [kind |-> ErrModbus, fc |-> FuncReadHoldingRegisters,
                          code |-> ExceptionIllegalDataAddress]
          /\ last'.sent = 1]_vars

\* The largest quantity of the function of the method op.
MaxQuantityOf(op) ==
    CASE op = "ReadCoils" -> MaxQuantityCoils
      [] op = "ReadHoldingRegisters" -> MaxQuantityRegisters
      [] op = "WriteMultipleCoils" -> MaxQuantityCoils
      [] OTHER -> MaxQuantityWriteRegisters

\* C22: a read or multi-write call whose quantity is 0 or above the
\* function's maximum returns an error without I/O: no frame is sent, and
\* the connection state and RequestsTotal stay as they were.
C22_BadQuantityRejectedBeforeIO ==
    [][\A op \in {"ReadCoils", "ReadHoldingRegisters", "WriteMultipleCoils",
                  "WriteMultipleRegisters"} :
         (CallsConnected(op)
          /\ (last'.qty = 0 \/ last'.qty > MaxQuantityOf(op)))
         => /\ last'.err.kind \notin {ErrNone, Panic}
            /\ ~link'.crashed
            /\ last'.sent = 0
            /\ link'.state = link.state
            /\ link'.sock = link.sock
            /\ link'.RequestsTotal = link.RequestsTotal]_vars

\* C23: BuildWriteMultipleCoilsPDU and BuildWriteMultipleRegistersPDU
\* return an error for every list whose length is outside 1..2000 and
\* 1..123, lengths of 65536 and more included, and the PDU they build
\* otherwise has the list's length as its quantity field.
C23_MultiWriteBuildersCheckLength ==
    \A op \in {"WriteMultipleCoils", "WriteMultipleRegisters"} :
       last.op = op
       => IF last.qty \notin 1..MaxQuantityOf(op)
          THEN /\ last.pdu = <<>>
               /\ last.err.kind \in {ErrInvalidQuantity, ErrInvalidAddress}
          ELSE /\ last.err.kind # Panic
               /\ last.pdu # <<>> => GetUint16(last.pdu, 4) = last.qty

\* The number in wrote of the latest successful write to address a of the
\* registers (regs) or coils of the unit; 0 when there is none.
LatestWrite(regs, unit, a) ==
    LET ws == {i \in 1..Len(wrote) :
                 /\ wrote[i].regs = regs
                 /\ wrote[i].unit = unit
                 /\ a >= wrote[i].addr
                 /\ a < wrote[i].addr + wrote[i].list.len}
    IN  IF ws = {} THEN 0 ELSE CHOOSE i \in ws : \A j \in ws : j <= i

\* The value the write numbered i wrote to address a.
WrittenAt(regs, i, a) ==
    IF regs THEN RegElem(wrote[i].list, a - wrote[i].addr)
    ELSE CoilElem(wrote[i].list, a - wrote[i].addr)

\* The latest call is a read, within the function's quantity, of addresses
\* of the unit that were all written successfully before.
ReadsWritten(regs) ==
    /\ last.op = (IF regs THEN "ReadHoldingRegisters" ELSE "ReadCoils")
    /\ last.qty \in 1..MaxQuantityOf(last.op)
    /\ last.addr + last.qty <= 65536
    /\ \A a \in last.addr..(last.addr + last.qty - 1) :
          LatestWrite(regs, last.unit, a) # 0

\* C28: a read of addresses of a unit that were written successfully
\* (single or multiple write, coils or registers) returns, for each, the
\* value most recently written to it.
C28_ReadReturnsLastWritten ==
    \A regs \in BOOLEAN :
       ReadsWritten(regs)
       => /\ last.err.kind = ErrNone
          /\ Len(last.values) = last.qty
          /\ \A k \in 1..last.qty :
                last.values[k] =
                    WrittenAt(regs,
                              LatestWrite(regs, last.unit, last.addr + k - 1),
                              last.addr + k - 1)

(***************************************************************************)
(* Properties of the client's disconnect callback, gauge and of            *)
(* transport.Close.                                                        *)
(***************************************************************************)
\* In this step goroutine p returns from handleDisconnect, having invoked
\* the on_disconnect callback.
InvokesOnDisconnect(p) ==
    /\ req[p].pc = "hd_close"
    /\ req'[p].pc # "hd_close"
    /\ metrics'.onDisconnect = metrics.onDisconnect + 1

\* C24: on_disconnect is invoked only for an observed disconnect: the
\* handleDisconnect that invokes it found the client Connected and took it
\* to Disconnected.
C24_OnDisconnectOnlyForLostConnection ==
    [][\A p \in Procs : InvokesOnDisconnect(p) => req[p].wasConnected]_vars

\* C25: ActiveConns is 1 when the client's state is Connected and 0
\* otherwise.
C25_ActiveConnsIsConnectedState ==
    metrics.ActiveConns = (IF client.state = StateConnected THEN 1 ELSE 0)

\* Goroutine p has called transport.Close (from Client.Close or from
\* handleDisconnect) and has not returned from it.
InTransportClose(p) == req[p].pc \in {"cl_close", "hd_close"}

\* C26: transport.Close called while a Send waits for its response does
\* not wait for the Send: it can take the transport's lock and close the
\* socket.
C26_CloseDoesNotWaitForSend ==
    \A p \in Procs, q \in Procs :
       (InTransportClose(p) /\ req[q].pc = "ts_read")
       => TransportLockFree(p)

(***************************************************************************)
(* Properties of the frame codec and of the transaction-ID generator.      *)
(***************************************************************************)
\* The frame encoded is valid and its bytes have been decoded.
DecodedValid ==
    /\ fr.err # "none"
    /\ fr.frame.protocol = ProtocolID
    /\ Len(fr.frame.pdu) \in 1..MaxPDUSize

\* C27: decoding the bytes of an encoded valid frame (ProtocolID 0, PDU of
\* 1 to 253 bytes) succeeds and gives the frame's transaction ID, unit ID
\* and PDU, and a Length field of the PDU's length plus one.
C27_DecodeOfEncodeIsFrame ==
    DecodedValid
    => /\ fr.err = ErrNone
       /\ fr.decoded.tx = fr.frame.tx
       /\ fr.decoded.unit = fr.frame.unit
       /\ fr.decoded.pdu = fr.frame.pdu
       /\ fr.decoded.protocol = ProtocolID
       /\ fr.length = Len(fr.frame.pdu) + 1

\* A frame with the largest transaction ID, unit ID and PDU has made the
\* round trip.
C27_Witness ==
    /\ DecodedValid
    /\ fr.err = ErrNone
    /\ fr.frame.tx = 65535
    /\ fr.frame.unit = 255
    /\ Len(fr.frame.pdu) = MaxPDUSize
    /\ Len(fr.bytes) = MBAPHeaderSize + MaxPDUSize

\* C29: the k-th call of Next returns k mod 65536, and two calls fewer than
\* 65536 calls apart, by different goroutines, return different values.
C29_KthCallReturnsKMod65536 ==
    /\ \A p \in Procs : gen.at[p] > 0 => gen.ret[p] = gen.at[p] % 65536
    /\ \A p \in Procs, q \in Procs :
          (/\ gen.at[p] > 0
           /\ gen.at[q] > gen.at[p]
           /\ gen.at[q] - gen.at[p] < 65536)
          => gen.ret[p] # gen.ret[q]

\* The counter has wrapped past 65535 between the latest calls of the two
\* goroutines, which are fewer than 65536 calls apart.
C29_Witness ==
    /\ gen.at["b"] = 2
    /\ gen.ret["b"] = 2
    /\ gen.at["a"] = 65537
    /\ gen.ret["a"] = 1
    /\ gen.hi = 1

(***************************************************************************)
(* The pool's created counter.                                             *)
(***************************************************************************)
\* No Get, Put, Discard or Close is under way and the health sweep is not
\* at work: no creation is in flight and no client is between the queue and
\* a caller.
PoolQuiet ==
    /\ \A p \in Procs : callers[p].pc = "idle" /\ callers[p].entry = NoEntry
    /\ hc.checked = <<>>
    /\ hc.pc \in {"ticker", "returned"}
    /\ ~pool.panicked

\* C30: created equals the clients checked out plus the clients idle in the
\* queue (no creation being in flight), and is never negative.
C30_CreatedCountsClients ==
    /\ pool.created >= 0
    /\ PoolQuiet
       => pool.created = Cardinality(CheckedOut) + Len(pool.conns)

(***************************************************************************)
(* The Available metric.                                                   *)
(***************************************************************************)
\* C31: whenever the pool is quiescent, open or closed, the Available metric
\* equals the number of entries in the idle queue.
C31_AvailableIsQueueLength ==
    PoolQuiet => pmetrics.Available = Len(pool.conns)

(***************************************************************************)
(* A Get that waits for a client.                                          *)
(***************************************************************************)
\* Get of p is in its waiting select, its context neither cancelled nor
\* expired.
WaitingGet(p) ==
    /\ callers[p].op = "get"
    /\ callers[p].pc \in {"g_wait", "g_parked"}
    /\ callers[p].ctx = "live"

\* What a release leaves behind: an entry in the idle queue (Put) or
\* created below size (Discard).
ReleasedToPool == Len(pool.conns) > 0 \/ SlotFree

\* C32: a Get that waits while a client has been released, put back in the
\* idle queue or discarded so that created is below size, eventually returns,
\* unless its context ends, the pool is closed, or another Get takes what
\* was released.
C32_WaitingGetReturnsAfterRelease ==
    \A p \in Procs :
        (WaitingGet(p) /\ ReleasedToPool)
        ~> (~WaitingGet(p) \/ pool.closed \/ ~ReleasedToPool)

(***************************************************************************)
(* Pool.Close against Put and the health sweep.                            *)
(***************************************************************************)
\* The program has panicked in a send on p.conns after close(p.conns): in
\* Put (the panicking goroutine's call is a Put) or in the health sweep's
\* putting back (no caller is the panicking goroutine); the other panic of
\* the pool is that of a Get.
SentOnClosedConns ==
    /\ pool.panicked
    /\ \A p \in Procs : callers[p].ret = Panic => callers[p].op = "put"

\* C33: whatever the interleaving of Close with Put and with the health
\* sweep, no entry is sent on p.conns once Close has closed it; a Put that
\* has seen the pool closed has closed its client and decrements created.
C33_NoSendAfterClose ==
    /\ ~SentOnClosedConns
    /\ \A p \in Procs :
         (callers[p].op = "put" /\ callers[p].pc = "p_dec")
         => clients[callers[p].arg] = "closed"

(***************************************************************************)
(* The client's state against its transport.                               *)
(***************************************************************************)
\* No Connect, Close or request is in progress on the client.
ClientQuiet == \A p \in Procs : req[p].pc \in {"idle", "ret"}

\* C34: with auto_reconnect on and Close never called, whenever the client
\* is in state Connected and no call is in progress on it, its transport
\* holds an open socket.
C34_ConnectedHasSocket ==
    (/\ opts.autoReconnect
     /\ ~client.closed
     /\ client.state = StateConnected
     /\ ClientQuiet)
    => transport.conn # 0

(***************************************************************************)
(* The reads of the MemoryHandler.                                         *)
(***************************************************************************)
MemoryReads ==
    {"MemoryHandler.ReadCoils", "MemoryHandler.ReadDiscreteInputs",
     "MemoryHandler.ReadHoldingRegisters", "MemoryHandler.ReadInputRegisters"}

\* C35: a read of the in-memory handler with qty >= 1 and addr + qty <=
\* 65536, the ranges that end at the last address included, returns exactly
\* qty values and neither fails nor panics.
C35_ReadsUpToLastAddress ==
    (/\ last.op \in MemoryReads
     /\ last.qty >= 1
     /\ last.addr + last.qty <= 65536)
    => /\ last.err.kind = ErrNone
       /\ Len(last.values) = last.qty

(***************************************************************************)
(* What the server lets through to the Handler.                            *)
(***************************************************************************)
\* The largest quantity of a function code.
QuantityLimit(fc) ==
    CASE fc \in {FuncReadCoils, FuncWriteMultipleCoils} -> MaxQuantityCoils
      [] fc = FuncReadDiscreteInputs -> MaxQuantityDiscreteInputs
      [] fc = FuncWriteMultipleRegisters -> MaxQuantityWriteRegisters
      [] OTHER -> MaxQuantityRegisters

\* The bytes that carry qty values of a multiple write.
DataBytes(fc, qty) ==
    IF fc = FuncWriteMultipleCoils THEN (qty + 7) \div 8 ELSE 2 * qty

\* The request PDU is one of a read or write of the tables, complete, and
\* passes validation: quantity within the limits of its function, addr +
\* qty <= 65536, declared byte count that of the quantity and the data all
\* there, and for WriteSingleCoil a value of 0x0000 or 0xFF00.
PassesValidation(pdu) ==
    /\ Len(pdu) >= 5
    /\ pdu[1] \in TableFuncs
    /\ LET fc == pdu[1]
           addr == GetUint16(pdu, 2)
           qty == GetUint16(pdu, 4)
       IN  CASE fc = FuncWriteSingleRegister -> TRUE
             [] fc = FuncWriteSingleCoil -> qty \in {0, 65280}
             [] fc \in {FuncWriteMultipleCoils, FuncWriteMultipleRegisters} ->
                  /\ qty >= 1 /\ qty <= QuantityLimit(fc)
                  /\ addr + qty <= 65536
                  /\ Len(pdu) >= 6
                  /\ pdu[6] = DataBytes(fc, qty)
                  /\ Len(pdu) >= 6 + pdu[6]
             [] OTHER ->
                  /\ qty >= 1 /\ qty <= QuantityLimit(fc)
                  /\ addr + qty <= 65536

ReceivedHeader == MBAPHeaderDecode(fr.bytes)

Accepted == fr.op # "none" /\ fr.err = ErrNone

\* C37: every frame a decoder accepts (Frame.Decode on a buffer, ReadFrame
\* on a stream, the response reader of the transport) has ProtocolID 0 and
\* declares a PDU of 1 to 253 bytes; a frame with another ProtocolID, with
\* an empty PDU (Length = 1) or with a PDU of more than 253 bytes is
\* rejected.
C37_DecodersAcceptOnlyValidFrames ==
    Accepted =>
        /\ ReceivedHeader.protocol = ProtocolID
        /\ ReceivedHeader.length - 1 \in 1..MaxPDUSize


\* The callers to whom a request has returned a ModbusError.
GotModbusError(p) == req[p].pc = "ret" /\ req[p].ret = ErrModbus

\* C38: every ModbusError the client returns for a request carries the
\* function code that is the first byte of the response PDU with its high
\* bit cleared, and that function code is the one of the request sent.
C38_ModbusErrorIsOfRequest ==
    \A p \in Procs :
        GotModbusError(p)
        => /\ req[p].excByte >= 128
           /\ req[p].excFC = req[p].excByte - 128
           /\ req[p].excFC = req[p].fc


\* C39: within one reconnect loop the wait after the k-th consecutive
\* failed attempt (k = 0, 1, 2, ...) is
\* min(reconnect_backoff * 2^k, max_reconnect_time), so no wait is longer
\* than max_reconnect_time, whatever the two options are.
C39_WaitsDoubleUpToMax ==
    \A i \in 1..Len(rc.waits) :
        /\ rc.waits[i] = MathMin(rc.reconnectBackoff * 2^(i - 1),
                                 rc.maxReconnectTime)
        /\ rc.waits[i] <= rc.maxReconnectTime


\* The loop is at the head of an iteration or in the backoff wait, and the
\* context is done or the client closed.
DoneBeforeAttemptOrInWait ==
    /\ rc.pc \in {"head", "wait"}
    /\ rc.ctx # "live" \/ rc.closed

\* reconnect has returned the error of the context, which is done, or
\* ErrConnectionClosed, the client being closed.
ReturnedDone ==
    /\ rc.pc = "ret"
    /\ \/ rc.ret = ErrCanceled /\ rc.ctx = "cancelled"
       \/ rc.ret = ErrDeadlineExceeded /\ rc.ctx = "deadline"
       \/ rc.ret = ErrConnectionClosed /\ rc.closed

\* C40: a reconnect loop ends once the context of the caller is cancelled
\* or the client is closed, be it before an attempt or during the backoff
\* wait, and reconnect then returns the context's error or
\* ErrConnectionClosed.
C40_ReconnectEndsOnDone == DoneBeforeAttemptOrInWait ~> ReturnedDone

\* C40 witness: the context was cancelled during the backoff wait after
\* the third failed attempt of a loop, and reconnect has returned
\* context.Canceled.
C40_Witness ==
    /\ rc.pc = "ret" /\ rc.ret = ErrCanceled
    /\ rc.doneAt = "wait"
    /\ rc.failed = 3 /\ Len(rc.waits) = 2
    /\ ~rc.closed

====
